---- MODULE Spec2Model ----
(***************************************************************************)
(* A model of the StackOverflowStudy analysis scripts:                     *)
(*   src/analysis/code_diff.py  - edit distance, snapshot pairing, batch   *)
(*   src/analysis/analysis.py   - join, tier grouping, statistical tests   *)
(* Text is modelled as a sequence of one-character strings, so that        *)
(* strip(), endswith(), slicing and int() are computed, not assumed.       *)
(* Each script is a specification of its own over the shared variables;    *)
(* the variables of the scripts that are not running keep their idle value.*)
(***************************************************************************)
EXTENDS Integers, Sequences, FiniteSets, TLC

VARIABLES
    \* levenshtein_distance: the two strings, the position, the result
    s1, s2, levPc, levResult,
    \* get_answer_version_pair: the directory, the position, the result
    dirKind, dirListing, pairPc, matching_pairs,
    \* find_and_compute_distances: LEVENSHTEIN_AVAILABLE, the base directory,
    \* the loop state, the records, and a log of every pair that was examined
    levAvailable, baseListing, all_folders, folderIdx, file_pairs, pairIdx,
    all_distances, total_pairs_found, batchLog, batchPc,
    \* a grouping function: which one, the table's header, the row just read,
    \* the lists and counters, the position
    grpTarget, grpHeader, grpLastRow, grpAcc, grpPc,
    \* stat_test: the table, what it returned or raised, the position
    statTable, statResult, statPc,
    \* map_lines_to_project: codelines_dict, the projects header, the rows
    \* read and written so far, the row just read, the counters and output
    codelines_dict, joinHeader, joinInput, joinLastRow, joinAcc, joinPc,
    \* count_code_lines: the root and what it lists, what each level 1
    \* directory listed, the output file and its rows, the loop state, the
    \* files of the project just counted, the directories scanned so far
    cntRootKind, cntRootListing, cntTree, cntFile, cntRows, subdirectories,
    level1Idx, level2_subdirs, level2Idx, cntFiles, cntScans, cntPc,
    \* the distances table: the triples to save, the file, what
    \* save_distances_to_csv returned, what read_distances_from_csv returned
    \* or raised, the statistics, the position
    distTriples, distFile, distSaved, distRead, distStats, distPc,
    \* the three grouping functions on one table: the table, what each
    \* function returned or raised, the position
    tierTable, tierResults, tierPc

levVars == <<s1, s2, levPc, levResult>>
pairVars == <<dirKind, dirListing, pairPc, matching_pairs>>
batchVars == <<levAvailable, baseListing, all_folders, folderIdx, file_pairs,
               pairIdx, all_distances, total_pairs_found, batchLog, batchPc>>
grpVars == <<grpTarget, grpHeader, grpLastRow, grpAcc, grpPc>>
statVars == <<statTable, statResult, statPc>>
joinVars == <<codelines_dict, joinHeader, joinInput, joinLastRow, joinAcc, joinPc>>
cntVars == <<cntRootKind, cntRootListing, cntTree, cntFile, cntRows, subdirectories,
             level1Idx, level2_subdirs, level2Idx, cntFiles, cntScans, cntPc>>
distVars == <<distTriples, distFile, distSaved, distRead, distStats, distPc>>
tierVars == <<tierTable, tierResults, tierPc>>
vars == <<levVars, pairVars, batchVars, grpVars, statVars, joinVars, cntVars, distVars, tierVars>>

(***************************************************************************)
(* Bounds of the model.                                                    *)
(***************************************************************************)
MaxLen == 3
MaxItems == 4
MaxFolders == 2
MaxRows == 2
MaxStatRows == 4
MaxCountRows == 1
MaxJoinRows == 2
MaxDirs == 2
MaxFiles == 2
MaxPipeRows == 2
MaxTriples == 2
MaxCsvRows == 2
MaxTierRows == 2

(***************************************************************************)
(* Generic helpers.                                                        *)
(***************************************************************************)
Min2(x, y) == IF x <= y THEN x ELSE y
Min3(x, y, z) == Min2(x, Min2(y, z))
Max2(x, y) == IF x >= y THEN x ELSE y
Abs(x) == IF x >= 0 THEN x ELSE 0 - x

\* All sequences over S of length at most n.
SeqUpTo(S, n) == UNION {[1..k -> S] : k \in 0..n}

(***************************************************************************)
(* code_diff.py: levenshtein_distance                                      *)
(***************************************************************************)
LevAlphabet == {"a", "b"}
LevStrings == SeqUpTo(LevAlphabet, MaxLen)

\* matrix = [[0 for _ in range(cols)] for _ in range(rows)], then the first
\* column set to the row index and the first row to the column index.
\* A mutant of InitMatrix that leaves the first row at zero.
InitMatrixFirstRowZero(rows, cols) ==
    [rc \in (0..(rows - 1)) \X (0..(cols - 1)) |-> IF rc[2] = 0 THEN rc[1] ELSE 0]

InitMatrix(rows, cols) ==
    [rc \in (0..(rows - 1)) \X (0..(cols - 1)) |->
        IF rc[2] = 0 THEN rc[1] ELSE IF rc[1] = 0 THEN rc[2] ELSE 0]

\* A mutant of SubstCost that charges a matching character too.
SubstCostAlwaysOne(a, b, row, col) == 1

\* cost = 0 if s1[row-1] == s2[col-1] else 1  (Python indexes from 0).
SubstCost(a, b, row, col) == IF a[row] = b[col] THEN 0 ELSE 1

\* A mutant of CellValue that forgets the insertion alternative.
CellValueNoInsertion(matrix, a, b, row, col) ==
    Min2(matrix[<<row - 1, col>>] + 1,
         matrix[<<row - 1, col - 1>>] + SubstCost(a, b, row, col))

\* min(deletion, insertion, substitution) for one cell.
CellValue(matrix, a, b, row, col) ==
    Min3(matrix[<<row - 1, col>>] + 1,
         matrix[<<row, col - 1>>] + 1,
         matrix[<<row - 1, col - 1>>] + SubstCost(a, b, row, col))

\* for row in range(1, rows): for col in range(1, cols): fill the cell.
RECURSIVE FillMatrix(_, _, _, _, _)
FillMatrix(matrix, a, b, row, col) ==
    LET rows == Len(a) + 1
        cols == Len(b) + 1
    IN  IF row >= rows THEN matrix
        ELSE IF col >= cols THEN FillMatrix(matrix, a, b, row + 1, 1)
        ELSE FillMatrix(
                [matrix EXCEPT ![<<row, col>>] = CellValue(matrix, a, b, row, col)],
                a, b, row, col + 1)

levenshtein_distance(a, b) ==
    LET rows == Len(a) + 1
        cols == Len(b) + 1
        matrix == FillMatrix(InitMatrix(rows, cols), a, b, 1, 1)
    IN  matrix[<<rows - 1, cols - 1>>]

(***************************************************************************)
(* Reference: the least number of single-character edits, by search over   *)
(* the strings themselves (no table, no recurrence on prefixes).           *)
(***************************************************************************)
Insertions(s) ==
    {SubSeq(s, 1, i) \o <<c>> \o SubSeq(s, i + 1, Len(s)) :
        i \in 0..Len(s), c \in LevAlphabet}
Deletions(s) ==
    {SubSeq(s, 1, i - 1) \o SubSeq(s, i + 1, Len(s)) : i \in 1..Len(s)}
Substitutions(s) ==
    {[s EXCEPT ![i[1]] = i[2]] : i \in (1..Len(s)) \X LevAlphabet}
\* Strings one edit away; intermediate strings are kept within length cap.
OneEdit(s, cap) ==
    {t \in Insertions(s) \cup Deletions(s) \cup Substitutions(s) :
        Len(t) <= cap /\ t # s}

RECURSIVE EditSearch(_, _, _, _)
EditSearch(reached, target, k, cap) ==
    IF target \in reached THEN k
    ELSE EditSearch(reached \cup UNION {OneEdit(s, cap) : s \in reached},
                    target, k + 1, cap)

MinEdits(a, b) == EditSearch({a}, b, 0, Max2(Len(a), Len(b)) + 1)

(***************************************************************************)
(* code_diff.py: get_answer_version_pair                                   *)
(* A directory listing is a sequence of entries [name, kind] in the order  *)
(* os.listdir returns them; a path is the sequence of its components.      *)
(***************************************************************************)
OriginalSuffix == <<"_", "o", "r", "i", "g", "i", "n", "a", "l", ".", "j", "a", "v", "a">>
RecentSuffix == <<"_", "r", "e", "c", "e", "n", "t", ".", "j", "a", "v", "a">>
OtherSuffix == <<".", "j", "a", "v", "a">>
OriginalSuffixLen == 14
RecentSuffixLen == 12

\* str.endswith
EndsWith(s, suffix) ==
    /\ Len(s) >= Len(suffix)
    /\ SubSeq(s, Len(s) - Len(suffix) + 1, Len(s)) = suffix

\* item[:-n] for n > 0
DropLast(s, n) == SubSeq(s, 1, Max2(Len(s) - n, 0))

\* os.path.join(path, item)
PathJoin(path, item) == Append(path, item)

\* A Python dict: a sequence of <<key, value>> in insertion order.
DictHas(d, k) == \E i \in 1..Len(d) : d[i][1] = k
DictGet(d, k) == d[CHOOSE i \in 1..Len(d) : d[i][1] = k][2]
\* d[k] = v: a new key goes last, an old key keeps its place.
DictPut(d, k, v) ==
    IF DictHas(d, k)
    THEN [i \in 1..Len(d) |-> IF d[i][1] = k THEN <<k, v>> ELSE d[i]]
    ELSE Append(d, <<k, v>>)

\* A mutant of IsRegularFile that takes every directory entry for a file.
IsRegularFileAnyEntry(entry) == TRUE

\* os.path.isfile(item_path)
IsRegularFile(entry) == entry.kind = "file"

\* One iteration of "for item in os.listdir(path)".
ScanItem(file_dict, path, entry) ==
    LET item == entry.name
        item_path == PathJoin(path, item)
    IN  IF ~IsRegularFile(entry) THEN file_dict
        ELSE IF EndsWith(item, OriginalSuffix)
        THEN [file_dict EXCEPT !.original =
                DictPut(@, DropLast(item, OriginalSuffixLen), item_path)]
        ELSE IF EndsWith(item, RecentSuffix)
        THEN [file_dict EXCEPT !.recent =
                DictPut(@, DropLast(item, RecentSuffixLen), item_path)]
        ELSE file_dict

RECURSIVE ScanItems(_, _, _, _)
ScanItems(file_dict, path, listing, i) ==
    IF i > Len(listing) THEN file_dict
    ELSE ScanItems(ScanItem(file_dict, path, listing[i]), path, listing, i + 1)

\* for prefix in file_dict['original']: if prefix in file_dict['recent']: append
RECURSIVE MatchPairs(_, _, _)
MatchPairs(file_dict, i, acc) ==
    IF i > Len(file_dict.original) THEN acc
    ELSE LET prefix == file_dict.original[i][1]
         IN  MatchPairs(file_dict, i + 1,
                IF DictHas(file_dict.recent, prefix)
                THEN Append(acc, <<file_dict.original[i][2],
                                   DictGet(file_dict.recent, prefix)>>)
                ELSE acc)

get_answer_version_pair(path, kind, listing) ==
    IF kind # "dir" THEN <<>>
    ELSE MatchPairs(ScanItems([original |-> <<>>, recent |-> <<>>], path, listing, 1),
                    1, <<>>)

\* File names of the model: a one-letter or empty prefix and one of the suffixes.
NamePrefixes == {<<>>, <<"a">>, <<"b">>}
PairNames == {p \o s : p \in NamePrefixes, s \in {OriginalSuffix, RecentSuffix}}
DirNames == PairNames \cup {<<"a">> \o OtherSuffix}
EntryKinds == {"file", "dir"}

\* Listings of at most n entries with pairwise distinct names.
Listings(names, n) ==
    {l \in SeqUpTo([name : names, kind : EntryKinds], n) :
        \A i, j \in 1..Len(l) : i # j => l[i].name # l[j].name}

(***************************************************************************)
(* code_diff.py: get_all_folders, compute_distance                         *)
(***************************************************************************)
RECURSIVE FoldersOf(_, _, _)
FoldersOf(listing, i, folders) ==
    IF i > Len(listing) THEN folders
    ELSE FoldersOf(listing, i + 1,
            IF listing[i].kind = "dir" THEN Append(folders, listing[i].name)
            ELSE folders)

get_all_folders(kind, listing) ==
    IF kind = "dir" THEN FoldersOf(listing, 1, <<>>) ELSE <<>>

\* What open(...).read() does: the text, or the exception it raises.
FileTexts == {<<>>, <<"a">>}
ReadOutcomes ==
    {[kind |-> "text", text |-> t] : t \in FileTexts}
        \cup {[kind |-> k, text |-> <<>>] : k \in {"OSError", "UnicodeDecodeError"}}

\* A mutant of CaughtOnRead that lets a decode failure propagate.
CaughtOnReadOSErrorOnly == {"IOError", "OSError"}

\* except (IOError, OSError, UnicodeDecodeError)
CaughtOnRead == {"IOError", "OSError", "UnicodeDecodeError"}

\* Levenshtein.distance of the python-Levenshtein package, by its contract.
LibraryDistance(a, b) == MinEdits(a, b)

\* compute_distance: [raised, value]; raised names an exception that leaves it.
compute_distance(r1, r2, available) ==
    IF r1.kind # "text"
    THEN IF r1.kind \in CaughtOnRead
         THEN [raised |-> "none", value |-> -1]
         ELSE [raised |-> r1.kind, value |-> 0]
    ELSE IF r2.kind # "text"
    THEN IF r2.kind \in CaughtOnRead
         THEN [raised |-> "none", value |-> -1]
         ELSE [raised |-> r2.kind, value |-> 0]
    ELSE [raised |-> "none",
          value |-> IF available THEN LibraryDistance(r1.text, r2.text)
                    ELSE levenshtein_distance(r1.text, r2.text)]

(***************************************************************************)
(* csv.DictReader, str.strip and int, as analysis.py uses them.            *)
(* A table is [header, rows]: column names, and rows of cells (texts).     *)
(* A dict value is [t, v]: a text ("str"), None (a field the row is too    *)
(* short for) or the list of surplus fields ("list", kept under RestKey).  *)
(***************************************************************************)
RestKey == "<None>"
StrValue(s) == [t |-> "str", v |-> s]
NoneValue == [t |-> "None", v |-> <<>>]
ListValue == [t |-> "list", v |-> <<>>]

\* dict(zip(fieldnames, row)), then restkey or restval for the difference.
RECURSIVE ZipFields(_, _, _, _)
ZipFields(header, row, i, d) ==
    IF i > Len(header)
    THEN IF Len(row) > Len(header) THEN DictPut(d, RestKey, ListValue) ELSE d
    ELSE ZipFields(header, row, i + 1,
            DictPut(d, header[i],
                    IF i <= Len(row) THEN StrValue(row[i]) ELSE NoneValue))

RowDict(header, row) == ZipFields(header, row, 1, <<>>)

\* The rows a DictReader yields: it passes over rows without any field.
DictReaderRows(rows) == SelectSeq(rows, LAMBDA r : r # <<>>)

\* row.get(key, default)
RowGet(d, key, default) == IF DictHas(d, key) THEN DictGet(d, key) ELSE StrValue(default)

Whitespace == {" ", "\n"}
RECURSIVE LStrip(_)
LStrip(s) == IF s # <<>> /\ Head(s) \in Whitespace THEN LStrip(Tail(s)) ELSE s
RECURSIVE RStrip(_)
RStrip(s) ==
    IF s # <<>> /\ s[Len(s)] \in Whitespace THEN RStrip(SubSeq(s, 1, Len(s) - 1)) ELSE s
\* str.strip()
Strip(s) == RStrip(LStrip(s))

DigitValue(c) ==
    CASE c = "0" -> 0 [] c = "1" -> 1 [] c = "2" -> 2 [] c = "3" -> 3 [] c = "4" -> 4
      [] c = "5" -> 5 [] c = "6" -> 6 [] c = "7" -> 7 [] c = "8" -> 8 [] c = "9" -> 9
Digits == {"0", "1", "2", "3", "4", "5", "6", "7", "8", "9"}
RECURSIVE DigitsValue(_, _)
DigitsValue(s, acc) ==
    IF s = <<>> THEN acc ELSE DigitsValue(Tail(s), 10 * acc + DigitValue(Head(s)))
\* int(s): [ok, value]; ok is FALSE where int raises ValueError.
IntOf(s) ==
    LET body == IF s # <<>> /\ Head(s) \in {"+", "-"} THEN Tail(s) ELSE s
    IN  IF body # <<>> /\ \A i \in 1..Len(body) : body[i] \in Digits
        THEN [ok |-> TRUE,
              value |-> IF Head(s) = "-" THEN 0 - DigitsValue(body, 0)
                        ELSE DigitsValue(body, 0)]
        ELSE [ok |-> FALSE, value |-> 0]

(***************************************************************************)
(* analysis.py: group_lines_by_categories, bugfix_recommendations_by_groups*)
(* and improving_code_recommendations_by_groups. The three differ in the   *)
(* target column alone, which is the parameter target here.                *)
(***************************************************************************)
Targets == {"code_lines", "bugfix", "improvingcode"}

EmptyGroups ==
    [lesser |-> <<>>, medium |-> <<>>, high |-> <<>>,
     lesser_count |-> 0, medium_count |-> 0, high_count |-> 0,
     other_count |-> 0, total_count |-> 0, raised |-> "none"]

\* A mutant of TierOf that takes a row for 'lesser' on its stars_region alone.
TierOfStarsOnly(stars_region, forks_region, watchers_region) ==
    IF stars_region = <<"1">> THEN "lesser"
    ELSE IF stars_region = <<"2">> /\ forks_region = <<"2">> /\ watchers_region = <<"2">>
    THEN "medium"
    ELSE IF stars_region = <<"3">> /\ forks_region = <<"3">> /\ watchers_region = <<"3">>
    THEN "high"
    ELSE "other"

\* The if / elif / elif / else on the three stripped region values.
TierOf(stars_region, forks_region, watchers_region) ==
    IF stars_region = <<"1">> /\ forks_region = <<"1">> /\ watchers_region = <<"1">>
    THEN "lesser"
    ELSE IF stars_region = <<"2">> /\ forks_region = <<"2">> /\ watchers_region = <<"2">>
    THEN "medium"
    ELSE IF stars_region = <<"3">> /\ forks_region = <<"3">> /\ watchers_region = <<"3">>
    THEN "high"
    ELSE "other"

\* What the body of "for row in reader" takes from a row: the tier and the
\* target value. None has no strip(): the AttributeError is caught by
\* "except Exception" and raised again as ValueError.
RowOutcome(d, target) ==
    LET stars == RowGet(d, "stars_region", <<>>)
        forks == RowGet(d, "forks_region", <<>>)
        watchers == RowGet(d, "watchers_region", <<>>)
        value == RowGet(d, target, <<"0">>)
    IN  IF \E x \in {stars, forks, watchers, value} : x.t # "str"
        THEN [raised |-> "ValueError", tier |-> "other", target_int |-> 0]
        ELSE LET parsed == IntOf(Strip(value.v))
             IN  [raised |-> "none",
                  tier |-> TierOf(Strip(stars.v), Strip(forks.v), Strip(watchers.v)),
                  target_int |-> IF parsed.ok THEN parsed.value ELSE 0]

\* A mutant of Accumulate that counts a row of a tier under 'other' as well.
AccumulateOtherToo(acc, outcome) ==
    LET counted == [acc EXCEPT !.total_count = @ + 1, !.other_count = @ + 1]
    IN  IF outcome.raised # "none"
        THEN [counted EXCEPT !.raised = outcome.raised]
        ELSE CASE outcome.tier = "lesser" ->
                    [counted EXCEPT !.lesser = Append(@, outcome.target_int),
                                    !.lesser_count = @ + 1]
               [] outcome.tier = "medium" ->
                    [counted EXCEPT !.medium = Append(@, outcome.target_int),
                                    !.medium_count = @ + 1]
               [] outcome.tier = "high" ->
                    [counted EXCEPT !.high = Append(@, outcome.target_int),
                                    !.high_count = @ + 1]
               [] OTHER -> counted

\* What the body does with it: count the row, append to the tier's list.
Accumulate(acc, outcome) ==
    LET counted == [acc EXCEPT !.total_count = @ + 1]
    IN  IF outcome.raised # "none"
        THEN [counted EXCEPT !.raised = outcome.raised]
        ELSE CASE outcome.tier = "lesser" ->
                    [counted EXCEPT !.lesser = Append(@, outcome.target_int),
                                    !.lesser_count = @ + 1]
               [] outcome.tier = "medium" ->
                    [counted EXCEPT !.medium = Append(@, outcome.target_int),
                                    !.medium_count = @ + 1]
               [] outcome.tier = "high" ->
                    [counted EXCEPT !.high = Append(@, outcome.target_int),
                                    !.high_count = @ + 1]
               [] OTHER -> [counted EXCEPT !.other_count = @ + 1]

\* The body of "for row in reader".
GroupRow(acc, d, target) == Accumulate(acc, RowOutcome(d, target))

\* statistics.stdev raises StatisticsError for fewer than two values.
StdevRaises(data) == Len(data) < 2

\* The statistics printed after the loop: "if lesser: ... stdev(lesser)".
GroupFinish(acc) ==
    IF \E data \in {acc.lesser, acc.medium, acc.high} : data # <<>> /\ StdevRaises(data)
    THEN [acc EXCEPT !.raised = "StatisticsError"]
    ELSE acc

RECURSIVE GroupRows(_, _, _, _, _)
GroupRows(acc, header, rows, i, target) ==
    IF acc.raised # "none" THEN acc
    ELSE IF i > Len(rows) THEN GroupFinish(acc)
    ELSE GroupRows(GroupRow(acc, RowDict(header, rows[i]), target),
                   header, rows, i + 1, target)

\* One of the three grouping functions on a whole table.
GroupTable(table, target) ==
    GroupRows(EmptyGroups, table.header, DictReaderRows(table.rows), 1, target)

(***************************************************************************)
(* analysis.py: stat_test. scipy's shapiro and kruskal are outside the     *)
(* repository: what is modelled is whether the call raises (lib), which    *)
(* the code's try/except turns into an 'error' entry.                      *)
(***************************************************************************)
GroupNames == <<"Lesser-quality", "Medium-quality", "High-quality">>
ShapiroMinimum == 3
KruskalMinimum == 2

NoResult == [kind |-> "none", error |-> "", n |-> 0, groups_compared |-> <<>>,
             degrees_of_freedom |-> 0]

\* if len(group_data) >= 3: try shapiro ... else 'Sample size too small'
NormalityOf(group_data, shapiro_raises) ==
    IF Len(group_data) >= ShapiroMinimum
    THEN IF shapiro_raises
         THEN [NoResult EXCEPT !.kind = "error", !.error = "exception"]
         ELSE [NoResult EXCEPT !.kind = "result", !.n = Len(group_data)]
    ELSE [NoResult EXCEPT !.kind = "error", !.error = "Sample size too small"]

\* group_names: the names of the non-empty groups, in order.
NonEmptyNames(groups) ==
    LET pick(i) == IF groups[i] # <<>> THEN <<GroupNames[i]>> ELSE <<>>
    IN  pick(1) \o pick(2) \o pick(3)

\* if len(kruskal_groups) >= 2: try kruskal ... else 'Insufficient groups'
KruskalOf(groups, kruskal_raises) ==
    LET group_names == NonEmptyNames(groups)
    IN  IF Len(group_names) >= KruskalMinimum
        THEN IF kruskal_raises
             THEN [NoResult EXCEPT !.kind = "error", !.error = "exception"]
             ELSE [NoResult EXCEPT !.kind = "result",
                                   !.groups_compared = group_names,
                                   !.degrees_of_freedom = Len(group_names) - 1]
        ELSE [NoResult EXCEPT !.kind = "error",
                              !.error = "Insufficient groups for comparison"]

\* The part of the loop over datasets that fills results for one dataset.
DatasetResults(data, lib) ==
    LET groups == <<data.lesser, data.medium, data.high>>
    IN  [normality |-> [i \in 1..3 |-> NormalityOf(groups[i], lib.shapiro)],
         kruskal |-> KruskalOf(groups, lib.kruskal)]

NoDataset == [normality |-> [i \in 1..3 |-> NoResult], kruskal |-> NoResult]

\* stat_test: the exception that leaves it (raised) or the results it returns.
\* Both grouping functions run first, outside any try.
stat_test(table, lib) ==
    LET bugfix_data == GroupTable(table, "bugfix")
        improvingcode_data == GroupTable(table, "improvingcode")
    IN  IF bugfix_data.raised # "none"
        THEN [raised |-> bugfix_data.raised, bugfix_data |-> bugfix_data,
              improvingcode_data |-> EmptyGroups,
              bugfix |-> NoDataset, improvingcode |-> NoDataset]
        ELSE IF improvingcode_data.raised # "none"
        THEN [raised |-> improvingcode_data.raised, bugfix_data |-> bugfix_data,
              improvingcode_data |-> improvingcode_data,
              bugfix |-> NoDataset, improvingcode |-> NoDataset]
        ELSE [raised |-> "none", bugfix_data |-> bugfix_data,
              improvingcode_data |-> improvingcode_data,
              bugfix |-> DatasetResults(bugfix_data, lib),
              improvingcode |-> DatasetResults(improvingcode_data, lib)]

(***************************************************************************)
(* analysis.py: map_lines_to_project                                       *)
(***************************************************************************)
\* One row of the code lines table: directory_name -> code_lines, both
\* stripped; a row without a directory name is passed over.
CodelinesRow(acc, d) ==
    LET directory_name == RowGet(d, "directory_name", <<>>)
        code_lines == RowGet(d, "code_lines", <<"0">>)
    IN  IF directory_name.t # "str" \/ code_lines.t # "str"
        THEN [acc EXCEPT !.raised = "ValueError"]
        ELSE IF Strip(directory_name.v) # <<>>
        THEN [acc EXCEPT !.dict = DictPut(@, Strip(directory_name.v), Strip(code_lines.v))]
        ELSE acc

RECURSIVE CodelinesRows(_, _, _, _)
CodelinesRows(acc, header, rows, i) ==
    IF acc.raised # "none" \/ i > Len(rows) THEN acc
    ELSE CodelinesRows(CodelinesRow(acc, RowDict(header, rows[i])), header, rows, i + 1)

\* codelines_dict, or the ValueError the reading ends in.
ReadCodelines(table) ==
    CodelinesRows([raised |-> "none", dict |-> <<>>], table.header,
                  DictReaderRows(table.rows), 1)

NameFields == <<"name", "project_name", "directory_name", "repo_name", "project">>

\* Python truth of a dict value: a non-empty text or list.
Truthy(value) == value.t = "list" \/ (value.t = "str" /\ value.v # <<>>)

\* for field in [...]: if field in row and row[field]: strip it; break
RECURSIVE PreferredName(_, _)
PreferredName(d, i) ==
    IF i > Len(NameFields) THEN [found |-> FALSE, name |-> <<>>]
    ELSE IF DictHas(d, NameFields[i]) /\ Truthy(DictGet(d, NameFields[i]))
    THEN [found |-> TRUE, name |-> Strip(DictGet(d, NameFields[i]).v)]
    ELSE PreferredName(d, i + 1)

\* for field, value in row.items(): if value and value.strip(): ...; break
\* A list has no strip(): the surplus fields raise AttributeError here.
RECURSIVE FirstNonEmpty(_, _)
FirstNonEmpty(d, i) ==
    IF i > Len(d) THEN [raised |-> "none", found |-> FALSE, name |-> <<>>]
    ELSE LET value == d[i][2]
         IN  IF ~Truthy(value) THEN FirstNonEmpty(d, i + 1)
             ELSE IF value.t = "list"
             THEN [raised |-> "ValueError", found |-> FALSE, name |-> <<>>]
             ELSE IF Strip(value.v) # <<>>
             THEN [raised |-> "none", found |-> TRUE, name |-> Strip(value.v)]
             ELSE FirstNonEmpty(d, i + 1)

\* project_name of a row: "if not project_name" also takes the fallback
\* when the preferred field held nothing but whitespace.
ProjectName(d) ==
    LET preferred == PreferredName(d, 1)
    IN  IF preferred.found /\ preferred.name # <<>>
        THEN [raised |-> "none", found |-> TRUE, name |-> preferred.name]
        ELSE FirstNonEmpty(d, 1)

\* A mutant of LookUp that ignores the case of the identifier.
Lower(s) == [i \in 1..Len(s) |-> IF s[i] = "A" THEN "a" ELSE s[i]]
LookUpAnyCase(counts, name) ==
    IF name.found /\ DictHas(counts, Lower(name.name))
    THEN [matched |-> TRUE, code_lines |-> DictGet(counts, Lower(name.name))]
    ELSE [matched |-> FALSE, code_lines |-> <<"0">>]

\* code_lines = '0'; if project_name and project_name in counts: ...
LookUp(counts, name) ==
    IF name.found /\ DictHas(counts, name.name)
    THEN [matched |-> TRUE, code_lines |-> DictGet(counts, name.name)]
    ELSE [matched |-> FALSE, code_lines |-> <<"0">>]

\* csv.DictWriter.writerow: a key outside fieldnames raises ValueError; the
\* cells follow fieldnames, None written as the empty text.
WriterRaises(d, fieldnames) ==
    \E i \in 1..Len(d) : \A j \in 1..Len(fieldnames) : fieldnames[j] # d[i][1]
WrittenRow(d, fieldnames) ==
    [j \in 1..Len(fieldnames) |->
        IF DictHas(d, fieldnames[j]) /\ DictGet(d, fieldnames[j]).t = "str"
        THEN DictGet(d, fieldnames[j]).v
        ELSE <<>>]

\* fieldnames = list(reader.fieldnames) + ['code_lines']
OutputFieldnames(header) == Append(header, "code_lines")

\* The body of "for row in reader" of map_lines_to_project.
JoinRow(acc, header, counts, row) ==
    LET d == RowDict(header, row)
        counted == [acc EXCEPT !.total_count = @ + 1]
        name == ProjectName(d)
        found == LookUp(counts, name)
        updated == DictPut(d, "code_lines", StrValue(found.code_lines))
        fieldnames == OutputFieldnames(header)
    IN  IF name.raised # "none" \/ WriterRaises(updated, fieldnames)
        THEN [counted EXCEPT !.raised = "ValueError"]
        ELSE [counted EXCEPT
                !.matched_count = IF found.matched THEN @ + 1 ELSE @,
                !.unmatched_projects =
                    IF ~found.matched /\ name.found THEN Append(@, name.name) ELSE @,
                !.output = Append(@, WrittenRow(updated, fieldnames))]

\* A mutant of ReportedUnmatched that counts the listed identifiers.
ReportedUnmatchedFromList(acc) == Len(acc.unmatched_projects)

\* print(f"Unmatched projects: {total_count - matched_count}")
ReportedUnmatched(acc) == acc.total_count - acc.matched_count

EmptyJoin ==
    [total_count |-> 0, matched_count |-> 0, unmatched_projects |-> <<>>,
     output |-> <<>>, raised |-> "none"]

\* for row in reader: ... writer.writerow(row), over a whole table.
RECURSIVE JoinRows(_, _, _, _, _)
JoinRows(acc, header, counts, rows, i) ==
    IF acc.raised # "none" \/ i > Len(rows) THEN acc
    ELSE JoinRows(JoinRow(acc, header, counts, rows[i]), header, counts, rows, i + 1)

\* The table map_lines_to_project leaves in its output file, as a reader
\* finds it. The cells of the model hold letters, digits and spaces only,
\* which csv writes and reads back unquoted and unchanged.
OutputTable(header, acc) == [header |-> OutputFieldnames(header), rows |-> acc.output]

(***************************************************************************)
(* analysis.py: count_code_lines                                           *)
(***************************************************************************)
\* code_extensions = {'.java'}
CodeExtensions == {<<".", "j", "a", "v", "a">>}

\* PurePath.suffix of a file name: from the last dot on, unless that dot
\* is the first or the last character of the name.
PathSuffix(name) ==
    LET dots == {i \in 1..Len(name) : name[i] = "."}
    IN  IF dots = {} THEN <<>>
        ELSE LET i == CHOOSE d \in dots : \A e \in dots : e <= d
             IN  IF i > 1 /\ i < Len(name) THEN SubSeq(name, i, Len(name)) ELSE <<>>

\* str.lower() on the letters file names are made of.
LowerChar(c) ==
    CASE c = "A" -> "a" [] c = "B" -> "b" [] c = "J" -> "j" [] c = "V" -> "v"
      [] OTHER -> c
StrLower(s) == [i \in 1..Len(s) |-> LowerChar(s[i])]

\* A mutant of MatchesExtension that compares the suffix as it is spelled.
MatchesExtensionAsSpelled(entry) ==
    entry.kind = "file" /\ PathSuffix(entry.path[Len(entry.path)]) \in CodeExtensions

\* file_path.is_file() and file_path.suffix.lower() in code_extensions
MatchesExtension(entry) ==
    entry.kind = "file" /\ StrLower(PathSuffix(entry.path[Len(entry.path)])) \in CodeExtensions

\* open(..., encoding='utf-8', errors='ignore'): bytes that are no UTF-8 are
\* dropped; "#" stands for such a byte.
InvalidByte == "#"
DecodeIgnore(bytes) == SelectSeq(bytes, LAMBDA c : c # InvalidByte)

\* for line in f: the lines of the text, each with its line end.
RECURSIVE LinesOfText(_, _, _)
LinesOfText(text, line, lines) ==
    IF text = <<>> THEN IF line = <<>> THEN lines ELSE Append(lines, line)
    ELSE IF Head(text) = "\n"
    THEN LinesOfText(Tail(text), <<>>, Append(lines, Append(line, "\n")))
    ELSE LinesOfText(Tail(text), Append(line, Head(text)), lines)

\* sum(1 for line in f if line.strip())
NonEmptyLineCount(text) ==
    Len(SelectSeq(LinesOfText(text, <<>>, <<>>), LAMBDA line : Strip(line) # <<>>))

\* The try / except around one file: what it adds to total_lines.
LinesAddedBy(entry) ==
    IF ~MatchesExtension(entry) THEN 0
    ELSE IF entry.outcome.kind = "OSError" THEN 0
    ELSE NonEmptyLineCount(DecodeIgnore(entry.outcome.bytes))

\* for file_path in level2_dir.rglob('*'): ... total_lines += lines
RECURSIVE CountTotal(_, _, _)
CountTotal(files, i, total_lines) ==
    IF i > Len(files) THEN total_lines
    ELSE CountTotal(files, i + 1, total_lines + LinesAddedBy(files[i]))

\* The order of str comparison on the characters directory names are made of.
CodePointOrder == <<"p", "q", "x", "y">>
CharRank(c) == CHOOSE i \in 1..Len(CodePointOrder) : CodePointOrder[i] = c
RECURSIVE NameLess(_, _)
NameLess(a, b) ==
    IF b = <<>> THEN FALSE
    ELSE IF a = <<>> THEN TRUE
    ELSE IF Head(a) # Head(b) THEN CharRank(Head(a)) < CharRank(Head(b))
    ELSE NameLess(Tail(a), Tail(b))

\* list.sort(key=lambda x: x.name): a stable insertion by name.
RECURSIVE InsertByName(_, _)
InsertByName(sorted, name) ==
    IF sorted = <<>> THEN <<name>>
    ELSE IF NameLess(name, Head(sorted)) THEN <<name>> \o sorted
    ELSE <<Head(sorted)>> \o InsertByName(Tail(sorted), name)
RECURSIVE SortByName(_, _)
SortByName(names, i) ==
    IF i = 0 THEN <<>> ELSE InsertByName(SortByName(names, i - 1), names[i])

\* A mutant of SortedSubdirs that keeps the order of the listing.
SubdirsAsListed(listing) ==
    LET kept == SelectSeq(listing, LAMBDA item : item.kind = "dir")
    IN  [i \in 1..Len(kept) |-> kept[i].name]

\* [item for item in d.iterdir() if item.is_dir()], then sorted by name.
SortedSubdirs(listing) ==
    LET kept == SelectSeq(listing, LAMBDA item : item.kind = "dir")
        dirs == [i \in 1..Len(kept) |-> kept[i].name]
    IN  SortByName(dirs, Len(dirs))

\* combined_name = f"{level1_name}/{level2_name}"
CombinedName(level1_name, level2_name) == level1_name \o <<"/">> \o level2_name

\* A mutant of RootCheck that only asks whether the root exists.
RootCheckExistsOnly(kind) == IF kind = "missing" THEN "ValueError" ELSE "none"

\* if not root_path.exists(): raise ...; if not root_path.is_dir(): raise ...
RootCheck(kind) == IF kind # "dir" THEN "ValueError" ELSE "none"

\* A mutant of WriteRow that opens the output file with 'w' for every row.
WriteRowTruncating(rows, combined_name, total_lines) == <<<<combined_name, total_lines>>>>

\* A mutant of WriteRow that leaves out a project without code lines.
WriteRowUnlessZero(rows, combined_name, total_lines) ==
    IF total_lines = 0 THEN rows ELSE Append(rows, <<combined_name, total_lines>>)

\* writer.writerow({'directory_name': combined_name, 'code_lines': total_lines})
WriteRow(rows, combined_name, total_lines) == Append(rows, <<combined_name, total_lines>>)

(***************************************************************************)
(* code_diff.py: save_distances_to_csv, read_distances_from_csv and        *)
(* analyze_levenshtein_distances. A file is [kind, text]: kind is          *)
(* "missing", "dir" (open raises OSError) or "file", text its characters;  *)
(* a run of letters and blanks of the header is kept as one element.       *)
(* csv.writer and csv.reader are modelled by what they do to the text.     *)
(***************************************************************************)
DistancesHeader == <<<<"First File">>, <<"Second File">>, <<"Levenshtein Distance">>>>

\* str(n) of an integer.
RECURSIVE NatStr(_)
NatStr(n) ==
    LET digit == <<"0", "1", "2", "3", "4", "5", "6", "7", "8", "9">>[(n % 10) + 1]
    IN  IF n < 10 THEN <<digit>> ELSE Append(NatStr(n \div 10), digit)
IntStr(n) == IF n < 0 THEN <<"-">> \o NatStr(0 - n) ELSE NatStr(n)

\* csv.writer, QUOTE_MINIMAL: a field holding the delimiter, the quote
\* character or a line end is quoted, its quote characters doubled.
NeedsQuotes(field) == \E i \in 1..Len(field) : field[i] \in {",", "\"", "\n", "\r"}
RECURSIVE DoubleQuotes(_)
DoubleQuotes(field) ==
    IF field = <<>> THEN <<>>
    ELSE (IF Head(field) = "\"" THEN <<"\"", "\"">> ELSE <<Head(field)>>)
            \o DoubleQuotes(Tail(field))

\* A mutant of FormatField that never quotes.
FormatFieldUnquoted(field) == field

FormatField(field) ==
    IF NeedsQuotes(field) THEN <<"\"">> \o DoubleQuotes(field) \o <<"\"">> ELSE field

\* csv_writer.writerow(fields): the fields, commas between, "\r\n" after.
RECURSIVE JoinFields(_, _)
JoinFields(fields, i) ==
    IF i > Len(fields) THEN <<"\r", "\n">>
    ELSE (IF i > 1 THEN <<",">> ELSE <<>>) \o FormatField(fields[i]) \o JoinFields(fields, i + 1)
WriterRow(fields) == JoinFields(fields, 1)

\* for file1, file2, dist_value in distances: csv_writer.writerow([...])
RECURSIVE WriteTriples(_, _)
WriteTriples(distances, i) ==
    IF i > Len(distances) THEN <<>>
    ELSE WriterRow(<<distances[i][1], distances[i][2], IntStr(distances[i][3])>>)
            \o WriteTriples(distances, i + 1)

\* save_distances_to_csv: [file, returned]. open_raises is the OSError of
\* open(output_path, 'w'), which leaves the file as it was.
save_distances_to_csv(distances, file, open_raises) ==
    IF open_raises
    THEN [file |-> file, returned |-> FALSE]
    ELSE [file |-> [kind |-> "file",
                    text |-> WriterRow(DistancesHeader) \o WriteTriples(distances, 1)],
          returned |-> TRUE]

\* open(csv_path, 'r'): universal newlines, "\r\n" and "\r" are read as "\n".
UniversalNewlines(text) ==
    LET translated ==
            [i \in 1..Len(text) |->
                IF text[i] = "\n" /\ i > 1 /\ text[i - 1] = "\r" THEN "dropped"
                ELSE IF text[i] = "\r" THEN "\n"
                ELSE text[i]]
    IN  SelectSeq(translated, LAMBDA c : c # "dropped")

\* The delimiter of the default dialect.
IsDelimiter(c) == c = ","

\* One character in the state machine of csv.reader's parser (start of
\* record, start of field, in field, in quoted field, quote in quoted
\* field), not strict. A line without any character gives a row without
\* fields.
ParseChar(p, c) ==
    IF p.state = "START_RECORD" /\ c = "\n"
    THEN [p EXCEPT !.rows = Append(@, <<>>)]
    ELSE IF p.state \in {"START_RECORD", "START_FIELD"} /\ c = "\""
    THEN [p EXCEPT !.state = "IN_QUOTED_FIELD"]
    ELSE IF p.state = "IN_QUOTED_FIELD" /\ c = "\""
    THEN [p EXCEPT !.state = "QUOTE_IN_QUOTED_FIELD"]
    ELSE IF p.state = "IN_QUOTED_FIELD"
    THEN [p EXCEPT !.field = Append(@, c)]
    ELSE IF p.state = "QUOTE_IN_QUOTED_FIELD" /\ c = "\""
    THEN [p EXCEPT !.state = "IN_QUOTED_FIELD", !.field = Append(@, c)]
    ELSE IF c = "\n"
    THEN [state |-> "START_RECORD", field |-> <<>>, row |-> <<>>,
          rows |-> Append(p.rows, Append(p.row, p.field))]
    ELSE IF IsDelimiter(c)
    THEN [p EXCEPT !.state = "START_FIELD", !.field = <<>>, !.row = Append(@, p.field)]
    ELSE [p EXCEPT !.state = "IN_FIELD", !.field = Append(@, c)]

\* csv.reader over the whole file; at its end an open field ends the last row.
RECURSIVE ParseCsv(_, _, _)
ParseCsv(text, i, p) ==
    IF i > Len(text)
    THEN IF p.state = "START_RECORD" THEN p.rows ELSE Append(p.rows, Append(p.row, p.field))
    ELSE ParseCsv(text, i + 1, ParseChar(p, text[i]))
CsvRows(text) ==
    ParseCsv(UniversalNewlines(text), 1,
             [state |-> "START_RECORD", field |-> <<>>, row |-> <<>>, rows |-> <<>>])

\* distances.append(dist_value)
KeepDistance(distances, dist_value) == Append(distances, dist_value)

\* if len(row) >= 3
EnoughColumns(row) == Len(row) >= 3

\* The loop "for row in csv_reader", from row i on.
RECURSIVE ReadRows(_, _, _)
ReadRows(rows, i, distances) ==
    IF i > Len(rows) THEN distances
    ELSE IF EnoughColumns(rows[i]) /\ IntOf(Strip(rows[i][3])).ok
    THEN ReadRows(rows, i + 1, KeepDistance(distances, IntOf(Strip(rows[i][3])).value))
    ELSE ReadRows(rows, i + 1, distances)

\* read_distances_from_csv: [raised, distances]. A missing file and an
\* OSError of open return []; a byte that is no UTF-8 raises
\* UnicodeDecodeError and a file without a first row makes next() raise
\* StopIteration, neither of which "except (IOError, OSError)" catches.
read_distances_from_csv(file) ==
    IF file.kind = "missing" THEN [raised |-> "none", distances |-> <<>>]
    ELSE IF file.kind = "dir" THEN [raised |-> "none", distances |-> <<>>]
    ELSE IF \E i \in 1..Len(file.text) : file.text[i] = InvalidByte
    THEN [raised |-> "UnicodeDecodeError", distances |-> <<>>]
    ELSE IF CsvRows(file.text) = <<>>
    THEN [raised |-> "StopIteration", distances |-> <<>>]
    ELSE [raised |-> "none", distances |-> ReadRows(CsvRows(file.text), 2, <<>>)]

\* sorted(distances)
RECURSIVE InsertSorted(_, _)
InsertSorted(sorted, x) ==
    IF sorted = <<>> THEN <<x>>
    ELSE IF x < Head(sorted) THEN <<x>> \o sorted
    ELSE <<Head(sorted)>> \o InsertSorted(Tail(sorted), x)
RECURSIVE Sorted(_)
Sorted(numbers) ==
    IF numbers = <<>> THEN <<>>
    ELSE InsertSorted(Sorted(SubSeq(numbers, 1, Len(numbers) - 1)), numbers[Len(numbers)])

RECURSIVE Total(_)
Total(numbers) == IF numbers = <<>> THEN 0 ELSE Head(numbers) + Total(Tail(numbers))

\* analyze_levenshtein_distances(distances=distances): {} for no distance,
\* else the statistics. The mean and the median are kept as the exact
\* fractions total / count and median_twice / 2; the standard deviation,
\* a rounded float, is left out.
NoStats == [empty |-> TRUE, min |-> 0, max |-> 0, total |-> 0, median_twice |-> 0,
            count |-> 0, raw_distances |-> <<>>]
analyze_levenshtein_distances(distances) ==
    IF distances = <<>> THEN NoStats
    ELSE LET count == Len(distances)
             sorted_distances == Sorted(distances)
             mid == count \div 2
         IN  [empty |-> FALSE,
              min |-> sorted_distances[1],
              max |-> sorted_distances[count],
              total |-> Total(distances),
              median_twice |-> IF count % 2 = 0
                               THEN sorted_distances[mid] + sorted_distances[mid + 1]
                               ELSE 2 * sorted_distances[mid + 1],
              count |-> count,
              raw_distances |-> distances]

(***************************************************************************)
(* The idle value of each script's variables.                              *)
(***************************************************************************)
LevIdle ==
    /\ s1 = <<>>
    /\ s2 = <<>>
    /\ levPc = "idle"
    /\ levResult = -1

PairIdle ==
    /\ dirKind = "missing"
    /\ dirListing = <<>>
    /\ pairPc = "idle"
    /\ matching_pairs = <<>>

BatchIdle ==
    /\ levAvailable = FALSE
    /\ baseListing = <<>>
    /\ all_folders = <<>>
    /\ folderIdx = 0
    /\ file_pairs = <<>>
    /\ pairIdx = 0
    /\ all_distances = <<>>
    /\ total_pairs_found = 0
    /\ batchLog = <<>>
    /\ batchPc = "idle"

GrpIdle ==
    /\ grpTarget = "code_lines"
    /\ grpHeader = <<>>
    /\ grpLastRow = <<>>
    /\ grpAcc = EmptyGroups
    /\ grpPc = "idle"

NoStatResult ==
    [raised |-> "none", bugfix_data |-> EmptyGroups, improvingcode_data |-> EmptyGroups,
     bugfix |-> NoDataset, improvingcode |-> NoDataset]

StatIdle ==
    /\ statTable = [header |-> <<>>, rows |-> <<>>]
    /\ statResult = NoStatResult
    /\ statPc = "idle"

JoinIdle ==
    /\ codelines_dict = <<>>
    /\ joinHeader = <<>>
    /\ joinInput = <<>>
    /\ joinLastRow = <<>>
    /\ joinAcc = EmptyJoin
    /\ joinPc = "idle"

CntIdle ==
    /\ cntRootKind = "idle"
    /\ cntRootListing = <<>>
    /\ cntTree = <<>>
    /\ cntFile = "untouched"
    /\ cntRows = <<>>
    /\ subdirectories = <<>>
    /\ level1Idx = 0
    /\ level2_subdirs = <<>>
    /\ level2Idx = 0
    /\ cntFiles = <<>>
    /\ cntScans = 0
    /\ cntPc = "idle"

NoRead == [raised |-> "none", distances |-> <<>>]

DistIdle ==
    /\ distTriples = <<>>
    /\ distFile = [kind |-> "missing", text |-> <<>>]
    /\ distSaved = "none"
    /\ distRead = NoRead
    /\ distStats = NoStats
    /\ distPc = "idle"


NotRun == [ran |-> FALSE, acc |-> EmptyGroups]

TierIdle ==
    /\ tierTable = [header |-> <<>>, rows |-> <<>>]
    /\ tierResults = [target \in Targets |-> NotRun]
    /\ tierPc = "idle"

(***************************************************************************)
(* Specification of levenshtein_distance: the two strings are the input.   *)
(***************************************************************************)
LevInit ==
    /\ s1 \in LevStrings
    /\ s2 \in LevStrings
    /\ levPc = "start"
    /\ levResult = -1
    /\ PairIdle /\ BatchIdle /\ GrpIdle /\ StatIdle /\ JoinIdle /\ CntIdle /\ DistIdle /\ TierIdle

LevCompute ==
    /\ levPc = "start"
    /\ levResult' = levenshtein_distance(s1, s2)
    /\ levPc' = "done"
    /\ UNCHANGED <<s1, s2, pairVars, batchVars, grpVars, statVars, joinVars, cntVars, distVars, tierVars>>

LevNext == LevCompute

SpecLev == LevInit /\ [][LevNext]_vars

(***************************************************************************)
(* Specification of get_answer_version_pair: the directory is the input.   *)
(***************************************************************************)
DirPath == <<"dir">>
DirListings == Listings(DirNames, MaxItems)

PairInit ==
    /\ dirKind \in {"missing", "file", "dir"}
    /\ dirListing \in IF dirKind = "dir" THEN DirListings ELSE {<<>>}
    /\ pairPc = "start"
    /\ matching_pairs = <<>>
    /\ LevIdle /\ BatchIdle /\ GrpIdle /\ StatIdle /\ JoinIdle /\ CntIdle /\ DistIdle /\ TierIdle

PairCall ==
    /\ pairPc = "start"
    /\ matching_pairs' = get_answer_version_pair(DirPath, dirKind, dirListing)
    /\ pairPc' = "done"
    /\ UNCHANGED <<dirKind, dirListing, levVars, batchVars, grpVars, statVars, joinVars, cntVars, distVars, tierVars>>

PairNext == PairCall

SpecPair == PairInit /\ [][PairNext]_vars

(***************************************************************************)
(* Specification of find_and_compute_distances. What the file system       *)
(* answers (the listings, what each read gives) is drawn when it is asked. *)
(* batchLog keeps, for every pair examined, whether both files could be    *)
(* read and what compute_distance returned.                                *)
(***************************************************************************)
FolderNames == {"f1", "f2", "f3"}
BatchNames == {p \o s : p \in {<<"a">>, <<"b">>}, s \in {OriginalSuffix, RecentSuffix}}
BaseListings == Listings(FolderNames, MaxFolders)
BatchListings == Listings(BatchNames, MaxItems)
\* A mutant of AddRecord that puts the newest record first.
AddRecordFirst(distances, record) == <<record>> \o distances

\* all_distances.append((original_file, recent_file, distance))
AddRecord(distances, record) == Append(distances, record)

\* What get_answer_version_pair can return for a folder, over every listing.
PairsOfFolder ==
    [folder \in FolderNames |->
        {get_answer_version_pair(<<folder>>, "dir", listing) : listing \in BatchListings}]
Unread == [kind |-> "unread", text |-> <<>>]

BatchInit ==
    /\ levAvailable \in BOOLEAN
    /\ baseListing = <<>>
    /\ all_folders = <<>>
    /\ folderIdx = 0
    /\ file_pairs = <<>>
    /\ pairIdx = 0
    /\ all_distances = <<>>
    /\ total_pairs_found = 0
    /\ batchLog = <<>>
    /\ batchPc = "start"
    /\ LevIdle /\ PairIdle /\ GrpIdle /\ StatIdle /\ JoinIdle /\ CntIdle /\ DistIdle /\ TierIdle

\* all_folders = get_all_folders(base_path)
BatchStart ==
    /\ batchPc = "start"
    /\ \E kind \in {"missing", "dir"} :
       \E listing \in IF kind = "dir" THEN BaseListings ELSE {<<>>} :
            /\ baseListing' = listing
            /\ all_folders' = get_all_folders(kind, listing)
    /\ folderIdx' = 1
    /\ batchPc' = "folders"
    /\ UNCHANGED <<levAvailable, file_pairs, pairIdx, all_distances,
                   total_pairs_found, batchLog>>
    /\ UNCHANGED <<levVars, pairVars, grpVars, statVars, joinVars, cntVars, distVars, tierVars>>

\* for folder in all_folders: file_pairs = get_answer_version_pair(folder_path)
BatchFolder ==
    /\ batchPc = "folders"
    /\ folderIdx <= Len(all_folders)
    /\ \E pairs \in PairsOfFolder[all_folders[folderIdx]] :
            /\ file_pairs' = pairs
            /\ total_pairs_found' = total_pairs_found + Len(pairs)
            /\ IF pairs # <<>>
               THEN /\ pairIdx' = 1
                    /\ batchPc' = "pairs"
                    /\ folderIdx' = folderIdx
               ELSE /\ pairIdx' = 0
                    /\ batchPc' = "folders"
                    /\ folderIdx' = folderIdx + 1
    /\ UNCHANGED <<levAvailable, baseListing, all_folders, all_distances, batchLog>>
    /\ UNCHANGED <<levVars, pairVars, grpVars, statVars, joinVars, cntVars, distVars, tierVars>>

\* One iteration of "for i, (original_file, recent_file) in enumerate(file_pairs, 1)".
BatchPair ==
    /\ batchPc = "pairs"
    /\ pairIdx <= Len(file_pairs)
    /\ \E r1 \in ReadOutcomes :
       \E r2 \in IF r1.kind = "text" THEN ReadOutcomes ELSE {Unread} :
        LET original_file == file_pairs[pairIdx][1]
            recent_file == file_pairs[pairIdx][2]
            result == compute_distance(r1, r2, levAvailable)
            distance == result.value
        IN  IF result.raised # "none"
            THEN /\ batchPc' = "raised"
                 /\ UNCHANGED <<folderIdx, pairIdx, all_distances, batchLog>>
            ELSE /\ all_distances' =
                        IF distance >= 0
                        THEN AddRecord(all_distances, <<original_file, recent_file, distance>>)
                        ELSE all_distances
                 /\ batchLog' = Append(batchLog,
                        [original |-> original_file, recent |-> recent_file,
                         readable |-> r1.kind = "text" /\ r2.kind = "text",
                         distance |-> distance])
                 /\ IF pairIdx < Len(file_pairs)
                    THEN /\ pairIdx' = pairIdx + 1
                         /\ UNCHANGED <<folderIdx, batchPc>>
                    ELSE /\ pairIdx' = 0
                         /\ folderIdx' = folderIdx + 1
                         /\ batchPc' = "folders"
    /\ UNCHANGED <<levAvailable, baseListing, all_folders, file_pairs, total_pairs_found>>
    /\ UNCHANGED <<levVars, pairVars, grpVars, statVars, joinVars, cntVars, distVars, tierVars>>

\* return all_distances
BatchReturn ==
    /\ batchPc = "folders"
    /\ folderIdx > Len(all_folders)
    /\ batchPc' = "returned"
    /\ UNCHANGED <<levAvailable, baseListing, all_folders, folderIdx, file_pairs,
                   pairIdx, all_distances, total_pairs_found, batchLog>>
    /\ UNCHANGED <<levVars, pairVars, grpVars, statVars, joinVars, cntVars, distVars, tierVars>>

BatchNext == BatchStart \/ BatchFolder \/ BatchPair \/ BatchReturn

SpecBatch == BatchInit /\ [][BatchNext]_vars

(***************************************************************************)
(* Specification of one grouping function. The table is read row by row:   *)
(* its header is drawn when the file is opened, each row when it is read.  *)
(***************************************************************************)
MarkerCells == {<<"1">>, <<"2">>, <<"3">>, <<" ", "1">>, <<"x">>, <<>>}
TargetCells == {<<"5">>, <<"x">>}
SurplusCells == {<<"x">>}
MarkerColumns == {"stars_region", "forks_region", "watchers_region"}

GroupHeaders(target) ==
    {<<"stars_region", "forks_region", "watchers_region", target>>,
     <<"stars_region", "forks_region", target>>,
     <<"stars_region", "forks_region", "watchers_region">>}

CellsOf(header, i) ==
    IF i > Len(header) THEN SurplusCells
    ELSE IF header[i] \in MarkerColumns THEN MarkerCells
    ELSE TargetCells

\* The rows a table with this header can hold: from one field to one field
\* more than the header has.
RowsOf(header) ==
    UNION {{r \in [1..k -> MarkerCells \cup TargetCells \cup SurplusCells] :
                \A i \in 1..k : r[i] \in CellsOf(header, i)} :
           k \in 1..(Len(header) + 1)}

GroupRowsOf ==
    [header \in UNION {GroupHeaders(target) : target \in Targets} |-> RowsOf(header)]

\* RowOutcome of every row of every header, computed once.
GroupOutcomeOf ==
    [x \in UNION {{h} \X GroupRowsOf[h] \X Targets : h \in DOMAIN GroupRowsOf} |->
        RowOutcome(RowDict(x[1], x[2]), x[3])]

GrpInit ==
    /\ grpTarget \in Targets
    /\ grpHeader = <<>>
    /\ grpLastRow = <<>>
    /\ grpAcc = EmptyGroups
    /\ grpPc = "start"
    /\ LevIdle /\ PairIdle /\ BatchIdle /\ StatIdle /\ JoinIdle /\ CntIdle /\ DistIdle /\ TierIdle

\* if not csv_path.exists(): raise ValueError; open the file, read the header.
GrpOpen ==
    /\ grpPc = "start"
    /\ \E exists \in BOOLEAN :
        IF exists
        THEN /\ grpHeader' \in GroupHeaders(grpTarget)
             /\ grpPc' = "reading"
             /\ UNCHANGED grpAcc
        ELSE /\ grpHeader' = <<>>
             /\ grpPc' = "raised"
             /\ grpAcc' = [grpAcc EXCEPT !.raised = "ValueError"]
    /\ UNCHANGED <<grpTarget, grpLastRow>>
    /\ UNCHANGED <<levVars, pairVars, batchVars, statVars, joinVars, cntVars, distVars, tierVars>>

\* for row in reader: the reader yields the next row.
GrpNextRow ==
    /\ grpPc = "reading"
    /\ grpAcc.total_count < MaxRows
    /\ grpLastRow' \in GroupRowsOf[grpHeader]
    /\ grpPc' = "row"
    /\ UNCHANGED <<grpTarget, grpHeader, grpAcc>>
    /\ UNCHANGED <<levVars, pairVars, batchVars, statVars, joinVars, cntVars, distVars, tierVars>>

\* The body of the loop on that row.
GrpBody ==
    /\ grpPc = "row"
    /\ LET acc == Accumulate(grpAcc, GroupOutcomeOf[<<grpHeader, grpLastRow, grpTarget>>])
       IN  /\ grpAcc' = acc
           /\ grpPc' = IF acc.raised # "none" THEN "raised" ELSE "counted"
    /\ UNCHANGED <<grpTarget, grpHeader, grpLastRow>>
    /\ UNCHANGED <<levVars, pairVars, batchVars, statVars, joinVars, cntVars, distVars, tierVars>>

\* Back to the head of the loop; the row is dropped.
GrpLoop ==
    /\ grpPc = "counted"
    /\ grpLastRow' = <<>>
    /\ grpPc' = "reading"
    /\ UNCHANGED <<grpTarget, grpHeader, grpAcc>>
    /\ UNCHANGED <<levVars, pairVars, batchVars, statVars, joinVars, cntVars, distVars, tierVars>>

\* The reader is exhausted: print the statistics and return the lists.
GrpEndOfFile ==
    /\ grpPc = "reading"
    /\ LET acc == GroupFinish(grpAcc)
       IN  /\ grpAcc' = acc
           /\ grpPc' = IF acc.raised # "none" THEN "raised" ELSE "returned"
    /\ UNCHANGED <<grpTarget, grpHeader, grpLastRow>>
    /\ UNCHANGED <<levVars, pairVars, batchVars, statVars, joinVars, cntVars, distVars, tierVars>>

GrpNext == GrpOpen \/ GrpNextRow \/ GrpBody \/ GrpLoop \/ GrpEndOfFile

SpecGroup == GrpInit /\ [][GrpNext]_vars

(***************************************************************************)
(* Specification of stat_test. The table is the input: rows of the three   *)
(* tiers and a partial match, all of full length; shapiro and kruskal      *)
(* raise or not.                                                           *)
(***************************************************************************)
StatHeader == <<"stars_region", "forks_region", "watchers_region", "bugfix", "improvingcode">>
StatRows ==
    {<<<<"1">>, <<"1">>, <<"1">>, <<"4">>, <<"6">>>>,
     <<<<"2">>, <<"2">>, <<"2">>, <<"4">>, <<"6">>>>,
     <<<<"3">>, <<"3">>, <<"3">>, <<"4">>, <<"6">>>>,
     <<<<"1">>, <<"1">>, <<"2">>, <<"4">>, <<"6">>>>}
StatTables == {[header |-> StatHeader, rows |-> rows] : rows \in SeqUpTo(StatRows, MaxStatRows)}

StatInit ==
    /\ statTable \in StatTables
    /\ statResult = NoStatResult
    /\ statPc = "start"
    /\ LevIdle /\ PairIdle /\ BatchIdle /\ GrpIdle /\ JoinIdle /\ CntIdle /\ DistIdle /\ TierIdle

StatCall ==
    /\ statPc = "start"
    /\ \E lib \in [shapiro : BOOLEAN, kruskal : BOOLEAN] :
        LET result == stat_test(statTable, lib)
        IN  /\ statResult' = result
            /\ statPc' = IF result.raised # "none" THEN "raised" ELSE "returned"
    /\ UNCHANGED statTable
    /\ UNCHANGED <<levVars, pairVars, batchVars, grpVars, joinVars, cntVars, distVars, tierVars>>

StatNext == StatCall

SpecStat == StatInit /\ [][StatNext]_vars

(***************************************************************************)
(* Specification of map_lines_to_project. The code lines table and the     *)
(* projects header are drawn when the files are opened, each projects row  *)
(* when it is read. joinInput keeps the rows that were written.            *)
(***************************************************************************)
JoinHeaders ==
    {<<"id", "name", "project">>, <<"name", "code_lines">>, <<"id", "owner">>}
\* The cells a column holds: names with and without padding, in two cases,
\* blank and empty.
JoinCellsOf(column) ==
    CASE column = "name" -> {<<>>, <<" ">>, <<"a">>, <<" ", "a">>, <<"A">>}
      [] column = "id" -> {<<>>, <<"a">>}
      [] column = "project" -> {<<>>, <<"A">>}
      [] column = "owner" -> {<<>>, <<" ">>, <<"a">>}
      [] column = "code_lines" -> {<<>>, <<"a">>, <<"A">>}
JoinRowsOf ==
    [header \in JoinHeaders |->
        UNION {{r \in [1..k -> {<<>>, <<" ">>, <<"a">>, <<" ", "a">>, <<"A">>, <<"x">>}] :
                    \A i \in 1..k : r[i] \in IF i > Len(header) THEN SurplusCells
                                             ELSE JoinCellsOf(header[i])} :
               k \in 1..(Len(header) + 1)}]

CountsHeader == <<"directory_name", "code_lines">>
CountsRows ==
    UNION {{r \in [1..k -> {<<>>, <<"a">>, <<" ", "a">>, <<"5">>, <<"7", " ">>}] :
                /\ r[1] \in {<<>>, <<"a">>, <<" ", "a">>}
                /\ k > 1 => r[2] \in {<<"5">>, <<"7", " ">>}} :
           k \in 1..2}
CountsTables ==
    {[header |-> CountsHeader, rows |-> rows] : rows \in SeqUpTo(CountsRows, MaxCountRows)}
\* What reading the code lines table can give, over every such table.
CodelinesResults == {ReadCodelines(table) : table \in CountsTables}

JoinInit ==
    /\ codelines_dict = <<>>
    /\ joinHeader = <<>>
    /\ joinInput = <<>>
    /\ joinLastRow = <<>>
    /\ joinAcc = EmptyJoin
    /\ joinPc = "start"
    /\ LevIdle /\ PairIdle /\ BatchIdle /\ GrpIdle /\ StatIdle /\ CntIdle /\ DistIdle /\ TierIdle

\* Up to the loop: both files must exist, the code lines table is read, the
\* projects file is opened and the output header written. An empty projects
\* file has no fieldnames (None), and list(None) raises.
JoinStart ==
    /\ joinPc = "start"
    /\ \E projects_exists, codelines_exists \in BOOLEAN :
       \E read \in CodelinesResults :
       \E header \in JoinHeaders \cup {<<>>} :
            IF projects_exists /\ codelines_exists /\ read.raised = "none" /\ header # <<>>
            THEN /\ codelines_dict' = read.dict
                 /\ joinHeader' = header
                 /\ joinPc' = "reading"
                 /\ UNCHANGED joinAcc
            ELSE /\ joinPc' = "raised"
                 /\ joinAcc' = [joinAcc EXCEPT !.raised = "ValueError"]
                 /\ UNCHANGED <<codelines_dict, joinHeader>>
    /\ UNCHANGED <<joinInput, joinLastRow>>
    /\ UNCHANGED <<levVars, pairVars, batchVars, grpVars, statVars, cntVars, distVars, tierVars>>

\* for row in reader: the reader yields the next row.
JoinNextRow ==
    /\ joinPc = "reading"
    /\ joinAcc.total_count < MaxJoinRows
    /\ joinLastRow' \in JoinRowsOf[joinHeader]
    /\ joinPc' = "row"
    /\ UNCHANGED <<codelines_dict, joinHeader, joinInput, joinAcc>>
    /\ UNCHANGED <<levVars, pairVars, batchVars, grpVars, statVars, cntVars, distVars, tierVars>>

\* The body of the loop on that row, and back to the head of the loop.
JoinBody ==
    /\ joinPc = "row"
    /\ LET acc == JoinRow(joinAcc, joinHeader, codelines_dict, joinLastRow)
       IN  /\ joinAcc' = acc
           /\ joinPc' = IF acc.raised # "none" THEN "raised" ELSE "reading"
           /\ joinInput' = IF acc.raised # "none" THEN joinInput
                           ELSE Append(joinInput, joinLastRow)
    /\ UNCHANGED <<codelines_dict, joinHeader, joinLastRow>>
    /\ UNCHANGED <<levVars, pairVars, batchVars, grpVars, statVars, cntVars, distVars, tierVars>>

\* The reader is exhausted: the counts are reported, the path returned.
JoinEndOfFile ==
    /\ joinPc = "reading"
    /\ joinPc' = "returned"
    /\ UNCHANGED <<codelines_dict, joinHeader, joinInput, joinLastRow, joinAcc>>
    /\ UNCHANGED <<levVars, pairVars, batchVars, grpVars, statVars, cntVars, distVars, tierVars>>

JoinNext == JoinStart \/ JoinNextRow \/ JoinBody \/ JoinEndOfFile

SpecJoin == JoinInit /\ [][JoinNext]_vars

(***************************************************************************)
(* Specification of count_code_lines. The root and what it lists are the   *)
(* input; what a level 1 directory lists and what rglob yields under a     *)
(* project are drawn when the directory is scanned. cntTree keeps what     *)
(* each level 1 directory listed, cntFiles what the last project held.     *)
(***************************************************************************)
CountRootNames == {<<"p">>, <<"q">>}
CountLevel2Names == {<<"x">>, <<"y">>}
\* Listings of at most MaxDirs entries: the first name a directory or a
\* file, the second a directory, in either order.
CountListings(names) ==
    {l \in Listings(names, MaxDirs) :
        \A i \in 1..Len(l) : l[i].kind = "file" => \A other \in names : ~NameLess(other, l[i].name)}
RootListings == CountListings(CountRootNames)
Level1Listings == CountListings(CountLevel2Names)

\* What a project holds: a.java, d/B.JAVA and c.txt, and a directory d.java.
JavaFile == <<<<"a", ".", "j", "a", "v", "a">>>>
NestedUpperFile == <<<<"d">>, <<"B", ".", "J", "A", "V", "A">>>>
TextFile == <<<<"c", ".", "t", "x", "t">>>>
JavaNamedDir == <<<<"d", ".", "j", "a", "v", "a">>>>
\* What reading a file gives: its bytes, or OSError from open or read.
CountBytes == {<<"a", "\n", " ", "\n", "a">>, <<InvalidByte, "\n", "a", "\n">>}
NoBytes == [kind |-> "OSError", bytes |-> <<>>]
CountOutcomes == {[kind |-> "bytes", bytes |-> b] : b \in CountBytes} \cup {NoBytes}
CountEntries ==
    {[path |-> path, kind |-> "file", outcome |-> o] :
        path \in {JavaFile, NestedUpperFile}, o \in CountOutcomes}
        \cup {[path |-> TextFile, kind |-> "file",
               outcome |-> [kind |-> "bytes", bytes |-> <<"a", "\n", " ", "\n", "a">>]],
              [path |-> JavaNamedDir, kind |-> "dir", outcome |-> NoBytes]}
\* What rglob('*') can yield: at most MaxFiles entries with distinct paths.
RglobResults ==
    {l \in SeqUpTo(CountEntries, MaxFiles) :
        \A i, j \in 1..Len(l) : i # j => l[i].path # l[j].path}

CntInit ==
    /\ cntRootKind \in {"missing", "file", "dir"}
    /\ cntRootListing \in IF cntRootKind = "dir" THEN RootListings ELSE {<<>>}
    /\ cntTree = <<>>
    /\ cntFile = "untouched"
    /\ cntRows = <<>>
    /\ subdirectories = <<>>
    /\ level1Idx = 0
    /\ level2_subdirs = <<>>
    /\ level2Idx = 0
    /\ cntFiles = <<>>
    /\ cntScans = 0
    /\ cntPc = "start"
    /\ LevIdle /\ PairIdle /\ BatchIdle /\ GrpIdle /\ StatIdle /\ JoinIdle /\ DistIdle /\ TierIdle

\* The checks of the root, the output file with its header, the sorted level
\* 1 directories.
CntStart ==
    /\ cntPc = "start"
    /\ IF RootCheck(cntRootKind) # "none"
       THEN /\ cntPc' = "raised"
            /\ UNCHANGED <<cntFile, subdirectories, level1Idx, cntScans>>
       ELSE /\ cntFile' = "created"
            /\ subdirectories' = SortedSubdirs(cntRootListing)
            /\ cntScans' = cntScans + 1
            /\ level1Idx' = 1
            /\ cntPc' = "level1"
    /\ UNCHANGED <<cntRootKind, cntRootListing, cntTree, cntRows, level2_subdirs,
                   level2Idx, cntFiles>>
    /\ UNCHANGED <<levVars, pairVars, batchVars, grpVars, statVars, joinVars, distVars, tierVars>>

\* for level1_dir in subdirectories: its sorted level 2 directories.
CntLevel1 ==
    /\ cntPc = "level1"
    /\ level1Idx <= Len(subdirectories)
    /\ \E listing \in Level1Listings :
        LET sorted == SortedSubdirs(listing)
        IN  /\ cntTree' = Append(cntTree, <<subdirectories[level1Idx], listing>>)
            /\ level2_subdirs' = sorted
            /\ IF sorted # <<>>
               THEN /\ level2Idx' = 1
                    /\ cntPc' = "level2"
                    /\ UNCHANGED level1Idx
               ELSE /\ level2Idx' = 0
                    /\ level1Idx' = level1Idx + 1
                    /\ UNCHANGED cntPc
    /\ cntScans' = cntScans + 1
    /\ UNCHANGED <<cntRootKind, cntRootListing, cntFile, cntRows, subdirectories, cntFiles>>
    /\ UNCHANGED <<levVars, pairVars, batchVars, grpVars, statVars, joinVars, distVars, tierVars>>

\* for level2_dir in level2_subdirs: count the project's files, write its row.
CntProject ==
    /\ cntPc = "level2"
    /\ level2Idx <= Len(level2_subdirs)
    /\ \E files \in RglobResults :
        LET combined_name ==
                CombinedName(subdirectories[level1Idx], level2_subdirs[level2Idx])
            total_lines == CountTotal(files, 1, 0)
        IN  /\ cntFiles' = files
            /\ cntRows' = WriteRow(cntRows, combined_name, total_lines)
    /\ cntScans' = cntScans + 1
    /\ cntPc' = "written"
    /\ UNCHANGED <<cntRootKind, cntRootListing, cntTree, cntFile, subdirectories,
                   level1Idx, level2_subdirs, level2Idx>>
    /\ UNCHANGED <<levVars, pairVars, batchVars, grpVars, statVars, joinVars, distVars, tierVars>>

\* On to the next level 2 directory, or back to the loop over level 1.
CntLoop ==
    /\ cntPc = "written"
    /\ cntFiles' = <<>>
    /\ IF level2Idx < Len(level2_subdirs)
       THEN /\ level2Idx' = level2Idx + 1
            /\ cntPc' = "level2"
            /\ UNCHANGED level1Idx
       ELSE /\ level2Idx' = 0
            /\ level1Idx' = level1Idx + 1
            /\ cntPc' = "level1"
    /\ UNCHANGED <<cntRootKind, cntRootListing, cntTree, cntFile, cntRows, subdirectories,
                   level2_subdirs, cntScans>>
    /\ UNCHANGED <<levVars, pairVars, batchVars, grpVars, statVars, joinVars, distVars, tierVars>>

\* return str(output_csv)
CntReturn ==
    /\ cntPc = "level1"
    /\ level1Idx > Len(subdirectories)
    /\ cntPc' = "returned"
    /\ UNCHANGED <<cntRootKind, cntRootListing, cntTree, cntFile, cntRows, subdirectories,
                   level1Idx, level2_subdirs, level2Idx, cntFiles, cntScans>>
    /\ UNCHANGED <<levVars, pairVars, batchVars, grpVars, statVars, joinVars, distVars, tierVars>>

CntNext == CntStart \/ CntLevel1 \/ CntProject \/ CntLoop \/ CntReturn

SpecCount == CntInit /\ [][CntNext]_vars

(***************************************************************************)
(* Specification of the pipeline: map_lines_to_project on a projects table *)
(* with the three markers, then group_lines_by_categories on its output.   *)
(***************************************************************************)
PipeHeader == <<"name", "stars_region", "forks_region", "watchers_region">>
PipeNames == {<<"a">>, <<" ", "a">>, <<"b">>}
PipeMarkers ==
    {<<<<"1">>, <<"1">>, <<"1">>>>, <<<<"2">>, <<"2">>, <<"2">>>>,
     <<<<"3">>, <<"3">>, <<"3">>>>, <<<<"1">>, <<"1">>, <<"2">>>>}
PipeRows == {<<name>> \o markers : name \in PipeNames, markers \in PipeMarkers}
PipeTables == SeqUpTo(PipeRows, MaxPipeRows)

PipeInit == JoinInit

\* map_lines_to_project(projects, counts, output)
PipeJoin ==
    /\ joinPc = "start"
    /\ \E read \in {r \in CodelinesResults : r.raised = "none"} :
       \E rows \in PipeTables :
        LET acc == JoinRows(EmptyJoin, PipeHeader, read.dict, DictReaderRows(rows), 1)
        IN  /\ codelines_dict' = read.dict
            /\ joinHeader' = PipeHeader
            /\ joinInput' = rows
            /\ joinAcc' = acc
            /\ joinPc' = IF acc.raised # "none" THEN "raised" ELSE "returned"
    /\ UNCHANGED joinLastRow
    /\ UNCHANGED <<levVars, pairVars, batchVars, grpVars, statVars, cntVars, distVars, tierVars>>

\* group_lines_by_categories(output)
PipeGroup ==
    /\ joinPc = "returned"
    /\ grpPc = "idle"
    /\ LET table == OutputTable(joinHeader, joinAcc)
           acc == GroupTable(table, "code_lines")
       IN  /\ grpTarget' = "code_lines"
           /\ grpHeader' = table.header
           /\ grpAcc' = acc
           /\ grpPc' = IF acc.raised # "none" THEN "raised" ELSE "returned"
    /\ UNCHANGED grpLastRow
    /\ UNCHANGED <<levVars, pairVars, batchVars, statVars, joinVars, cntVars, distVars, tierVars>>

PipeNext == PipeJoin \/ PipeGroup

SpecPipeline == PipeInit /\ [][PipeNext]_vars

(***************************************************************************)
(* Specification of the distances table, as the script of code_diff.py     *)
(* uses it: save_distances_to_csv writes the triples, then                 *)
(* read_distances_from_csv reads the file at the same path and             *)
(* analyze_levenshtein_distances summarises what was read. The file that   *)
(* is read may also be one the script did not write.                       *)
(***************************************************************************)
FirstPaths == {<<"a">>, <<"a", ",", "b">>, <<"\"", "a", "\n">>}
SecondPaths == {<<"b">>, <<"\r">>}
DistanceValues == {-1, 0, 12}
DistTriples == FirstPaths \X SecondPaths \X DistanceValues
DistTripleLists == UNION {[1..n -> DistTriples] : n \in 0..MaxTriples}

\* The lines a table that was not written by the script may hold.
CsvLines ==
    {<<"a", ",", "b", ",", "5">>, <<"a", ",", "b">>, <<"a", ",", "b", ",", "x">>, <<"a", ",", "b", ",", "-", "1">>, <<"a", ",", "b", ",", " ", "7">>, <<>>, <<"\"", "a", ",", "b", "\"", ",", "c", ",", "3", ",", "z">>}
RECURSIVE LinesText(_)
LinesText(lines) ==
    IF lines = <<>> THEN <<>> ELSE Head(lines) \o <<"\n">> \o LinesText(Tail(lines))
CsvLineLists == UNION {[1..n -> CsvLines] : n \in 0..MaxCsvRows}
DistFiles ==
    {[kind |-> "missing", text |-> <<>>], [kind |-> "dir", text |-> <<>>],
     [kind |-> "file", text |-> <<>>], [kind |-> "file", text |-> <<InvalidByte>>],
     [kind |-> "file", text |-> <<"x", ",", "y", ",", "z">>]}
    \cup {[kind |-> "file", text |-> LinesText(<<<<"x", ",", "y", ",", "z">>>> \o lines)] : lines \in CsvLineLists}
OldFile == [kind |-> "file", text |-> LinesText(<<<<"x", ",", "y", ",", "z">>, <<"a", ",", "b", ",", "5">>>>)]

DistInit ==
    /\ \/ /\ distTriples \in DistTripleLists
          /\ distFile \in {[kind |-> "missing", text |-> <<>>], OldFile}
       \/ /\ distTriples = <<>>
          /\ distFile \in DistFiles
    /\ distSaved = "none"
    /\ distRead = NoRead
    /\ distStats = NoStats
    /\ distPc = "start"
    /\ LevIdle /\ PairIdle /\ BatchIdle /\ GrpIdle /\ StatIdle /\ JoinIdle /\ CntIdle /\ TierIdle

\* save_distances_to_csv(all_distances, output_csv)
DistSave ==
    /\ distPc = "start"
    /\ \E open_raises \in BOOLEAN :
        LET result == save_distances_to_csv(distTriples, distFile, open_raises)
        IN  /\ distFile' = result.file
            /\ distSaved' = IF result.returned THEN "True" ELSE "False"
    /\ distPc' = "saved"
    /\ UNCHANGED <<distTriples, distRead, distStats>>
    /\ UNCHANGED <<levVars, pairVars, batchVars, grpVars, statVars, joinVars, cntVars, tierVars>>

\* distances = read_distances_from_csv(output_csv), of the file just saved
\* or of the file found at the path.
DistRead ==
    /\ distPc \in {"start", "saved"}
    /\ distRead' = read_distances_from_csv(distFile)
    /\ distPc' = IF distRead'.raised = "none" THEN "read" ELSE "raised"
    /\ UNCHANGED <<distTriples, distFile, distSaved, distStats>>
    /\ UNCHANGED <<levVars, pairVars, batchVars, grpVars, statVars, joinVars, cntVars, tierVars>>

\* stats = analyze_levenshtein_distances(distances=distances)
DistAnalyze ==
    /\ distPc = "read"
    /\ distStats' = analyze_levenshtein_distances(distRead.distances)
    /\ distPc' = "analyzed"
    /\ UNCHANGED <<distTriples, distFile, distSaved, distRead>>
    /\ UNCHANGED <<levVars, pairVars, batchVars, grpVars, statVars, joinVars, cntVars, tierVars>>

DistNext == DistSave \/ DistRead \/ DistAnalyze

SpecDist == DistInit /\ [][DistNext]_vars

(***************************************************************************)
(* Specification of the three grouping functions called on one and the     *)
(* same table, in any order: group_lines_by_categories,                    *)
(* bugfix_recommendations_by_groups, improving_code_recommendations_by_    *)
(* groups.                                                                 *)
(***************************************************************************)
TierHeaders ==
    {<<"stars_region", "forks_region", "watchers_region", "code_lines", "bugfix",
       "improvingcode">>,
     <<"stars_region", "forks_region", "watchers_region", "code_lines">>,
     <<"stars_region", "forks_region", "watchers_region">>}
TierMarkers ==
    {<<<<"1">>, <<"1">>, <<"1">>>>, <<<<"2">>, <<"2">>, <<"2">>>>,
     <<<<" ", "1">>, <<"1">>, <<"1">>>>, <<<<"1">>, <<"2">>, <<"1">>>>}
TierTails == {<<>>, <<<<"5">>>>, <<<<"5">>, <<"x">>>>, <<<<"5">>, <<"x">>, <<"7">>>>}
TierRows == {markers \o tail : markers \in TierMarkers, tail \in TierTails}
TierTables ==
    {[header |-> header, rows |-> rows] :
        header \in TierHeaders, rows \in SeqUpTo(TierRows, MaxTierRows)}

TierInit ==
    /\ tierTable \in TierTables
    /\ tierResults = [target \in Targets |-> NotRun]
    /\ tierPc = "start"
    /\ LevIdle /\ PairIdle /\ BatchIdle /\ GrpIdle /\ StatIdle /\ JoinIdle /\ CntIdle
    /\ DistIdle

\* One of the three functions is called on the table.
TierRun(target) ==
    /\ tierPc = "start"
    /\ ~tierResults[target].ran
    /\ tierResults' =
        [tierResults EXCEPT ![target] = [ran |-> TRUE, acc |-> GroupTable(tierTable, target)]]
    /\ UNCHANGED <<tierTable, tierPc>>
    /\ UNCHANGED <<levVars, pairVars, batchVars, grpVars, statVars, joinVars, cntVars, distVars>>

\* The three have been called.
TierDone ==
    /\ tierPc = "start"
    /\ \A target \in Targets : tierResults[target].ran
    /\ tierPc' = "done"
    /\ UNCHANGED <<tierTable, tierResults>>
    /\ UNCHANGED <<levVars, pairVars, batchVars, grpVars, statVars, joinVars, cntVars, distVars>>

TierNext ==
    \/ TierRun("code_lines")
    \/ TierRun("bugfix")
    \/ TierRun("improvingcode")
    \/ TierDone

SpecTiers == TierInit /\ [][TierNext]_vars

(***************************************************************************)
(* Properties                                                              *)
(***************************************************************************)

\* C1: levenshtein_distance(s1, s2) is the minimum number of single-character
\* insertions, deletions and substitutions that turn s1 into s2.
C1_MinimumEdits == levPc = "done" => levResult = MinEdits(s1, s2)
C1_Witness == levPc = "done" /\ s1 = <<"a", "b", "a">> /\ s2 = <<"b", "b">> /\ levResult = 2

\* C2: get_answer_version_pair returns the pair (P_original.java,
\* P_recent.java) exactly when both names are regular files of the folder,
\* once per prefix P, and returns nothing else.
HasFile(listing, name) ==
    \E i \in 1..Len(listing) : listing[i].name = name /\ listing[i].kind = "file"
PairOf(prefix) ==
    <<PathJoin(DirPath, prefix \o OriginalSuffix), PathJoin(DirPath, prefix \o RecentSuffix)>>
C2_PairsIffBothVersions ==
    pairPc = "done" =>
        /\ \A prefix \in NamePrefixes :
            Cardinality({i \in 1..Len(matching_pairs) : matching_pairs[i] = PairOf(prefix)})
                = IF /\ dirKind = "dir"
                     /\ HasFile(dirListing, prefix \o OriginalSuffix)
                     /\ HasFile(dirListing, prefix \o RecentSuffix)
                  THEN 1 ELSE 0
        /\ \A i \in 1..Len(matching_pairs) :
            \E prefix \in NamePrefixes : matching_pairs[i] = PairOf(prefix)
C2_Witness ==
    /\ pairPc = "done"
    /\ matching_pairs = <<PairOf(<<"a">>)>>
    /\ HasFile(dirListing, <<"b">> \o OriginalSuffix)
    /\ \E i \in 1..Len(dirListing) :
        dirListing[i] = [name |-> <<"b">> \o RecentSuffix, kind |-> "dir"]

\* C3: a pair with a file that cannot be read makes compute_distance return
\* -1 and leaves no record, and the batch goes on: it never stops on a read
\* failure, every pair found is examined, and every pair whose files are
\* read has its record.
C3_ReadFailureSkipsPair ==
    /\ batchPc # "raised"
    /\ \A i \in 1..Len(batchLog) :
        LET e == batchLog[i]
        IN  IF e.readable
            THEN /\ e.distance >= 0
                 /\ \E j \in 1..Len(all_distances) :
                        all_distances[j] = <<e.original, e.recent, e.distance>>
            ELSE /\ e.distance = -1
                 /\ \A j \in 1..Len(all_distances) :
                        <<all_distances[j][1], all_distances[j][2]>> # <<e.original, e.recent>>
    /\ batchPc = "returned" => Len(batchLog) = total_pairs_found
C3_Witness ==
    /\ batchPc = "returned"
    /\ \E i, j, k \in 1..Len(batchLog) :
        /\ i < j /\ j < k
        /\ ~batchLog[i].readable
        /\ batchLog[j].readable /\ batchLog[j].original[1] = batchLog[i].original[1]
        /\ batchLog[k].readable /\ batchLog[k].original[1] # batchLog[i].original[1]
        /\ Len(all_distances) = Len(batchLog) - 1

\* The row the grouping loop holds, as the reader yields it.
GrpRow == RowDict(grpHeader, grpLastRow)
AllMarkersAre(d, digit) ==
    \A c \in MarkerColumns : RowGet(d, c, <<>>) = StrValue(<<digit>>)
AllStrippedMarkersAre(d, digit) ==
    \A c \in MarkerColumns :
        LET value == RowGet(d, c, <<>>)
        IN  value.t = "str" /\ Strip(value.v) = <<digit>>
\* No column the loop reads is missing from the row (a row shorter than the
\* header gives None for it).
NoFieldMissing(d, target) ==
    \A c \in MarkerColumns \cup {target} : RowGet(d, c, <<"0">>).t = "str"
Grew(before, after) == Len(after) = Len(before) + 1

NonTierRow(d) == \A digit \in {"1", "2", "3"} : ~AllStrippedMarkersAre(d, digit)
C5_NonTierRowsAreSkipped ==
    [][/\ (grpPc = "row" /\ NonTierRow(GrpRow)) =>
            /\ grpPc' = "counted"
            /\ <<grpAcc'.lesser, grpAcc'.medium, grpAcc'.high>>
                = <<grpAcc.lesser, grpAcc.medium, grpAcc.high>>
       /\ (grpPc = "reading" /\ grpAcc.other_count > 0 /\ grpPc' \notin {"reading", "row"}) =>
            /\ grpPc' = "returned"
            /\ <<grpAcc'.lesser, grpAcc'.medium, grpAcc'.high>>
                = <<grpAcc.lesser, grpAcc.medium, grpAcc.high>>]_vars

\* The i-th row map_lines_to_project has written, as the reader yielded it.
JoinRowAt(i) == RowDict(joinHeader, joinInput[i])
\* The value the counts mapping holds for exactly this text, "0" without one.
MappedOrZero(name) ==
    IF \E k \in 1..Len(codelines_dict) : codelines_dict[k][1] = name
    THEN codelines_dict[CHOOSE k \in 1..Len(codelines_dict) : codelines_dict[k][1] = name][2]
    ELSE <<"0">>

\* C6: the code_lines cell of every written row holds the value mapped to
\* the row's stripped identifier when that exact text is a key of the counts
\* mapping, and "0" otherwise (a different case or no identifier included).
C6_ExactLookup ==
    \A i \in 1..Len(joinAcc.output) :
        LET out == joinAcc.output[i]
            name == ProjectName(JoinRowAt(i))
        IN  out[Len(out)] = IF name.found THEN MappedOrZero(name.name) ELSE <<"0">>
C6_Witness ==
    /\ joinPc = "returned"
    /\ joinHeader = <<"id", "name", "project">>
    /\ codelines_dict = <<<<<<"a">>, <<"5">>>>>>
    /\ joinInput = <<<<<<>>, <<" ", "a">>, <<>>>>, <<<<>>, <<"A">>, <<>>>>>>
    /\ joinAcc.output = <<<<<<>>, <<" ", "a">>, <<>>, <<"5">>>>,
                          <<<<>>, <<"A">>, <<>>, <<"0">>>>>>

\* C7: the output holds every row in the input's order with all its original
\* columns unchanged and exactly one added column, also when the input
\* table already has a code_lines column.
C7_JoinKeepsTable ==
    /\ Len(joinAcc.output) = Len(joinInput)
    /\ \A i \in 1..Len(joinAcc.output) :
        LET out == joinAcc.output[i]
            row == joinInput[i]
        IN  /\ Len(out) = Len(joinHeader) + 1
            /\ \A j \in 1..Min2(Len(joinHeader), Len(row)) : out[j] = row[j]

\* C8: the identifier of a row is the value of the first of name,
\* project_name, directory_name, repo_name, project that is present with a
\* non-empty value; the first non-empty field of the row is taken only when
\* there is no such column. The identifier shows in what is written and in
\* what is reported unmatched.
ClaimedIdentifier(d) ==
    LET preferred == PreferredName(d, 1)
    IN  IF preferred.found THEN preferred.name ELSE FirstNonEmpty(d, 1).name
C8_FirstNameColumnIsIdentifier ==
    [][(joinPc = "row" /\ joinPc' = "reading") =>
        LET id == ClaimedIdentifier(RowDict(joinHeader, joinLastRow))
            out == joinAcc'.output[Len(joinAcc'.output)]
        IN  /\ out[Len(out)] = MappedOrZero(id)
            /\ joinAcc'.unmatched_projects =
                IF id # <<>> /\ ~DictHas(codelines_dict, id)
                THEN Append(joinAcc.unmatched_projects, id)
                ELSE joinAcc.unmatched_projects]_vars

\* The number of rows of the table whose three markers all are this digit.
TierSize(digit) ==
    Cardinality({i \in 1..Len(statTable.rows) :
                    \A j \in 1..3 : statTable.rows[i][j] = <<digit>>})
TierDigits == <<"1", "2", "3">>
TooSmall == [NoResult EXCEPT !.kind = "error", !.error = "Sample size too small"]

\* C9: stat_test attempts the normality test of a tier only when the tier
\* has at least 3 values; for a tier of 0, 1 or 2 values it records
\* 'sample size too small' in both datasets and still returns.
C9_SmallTiersAreReported ==
    statPc # "start" =>
        \A i \in 1..3 :
            IF TierSize(TierDigits[i]) < ShapiroMinimum
            THEN /\ statPc = "returned"
                 /\ statResult.bugfix.normality[i] = TooSmall
                 /\ statResult.improvingcode.normality[i] = TooSmall
            ELSE statPc = "returned" =>
                    /\ statResult.bugfix.normality[i] # TooSmall
                    /\ statResult.improvingcode.normality[i] # TooSmall

\* C10: stat_test compares exactly the non-empty tiers: with two or more the
\* result lists those tiers and has one degree of freedom less than their
\* number (or is the entry of a test that failed inside the library); with
\* fewer the result is 'insufficient groups' and no test is run. Either way
\* stat_test returns.
NonEmptyTiers ==
    LET pick(i) == IF TierSize(TierDigits[i]) > 0 THEN <<GroupNames[i]>> ELSE <<>>
    IN  pick(1) \o pick(2) \o pick(3)
KruskalAsClaimed(entry) ==
    IF Len(NonEmptyTiers) >= 2
    THEN \/ entry = [NoResult EXCEPT !.kind = "result",
                                     !.groups_compared = NonEmptyTiers,
                                     !.degrees_of_freedom = Len(NonEmptyTiers) - 1]
         \/ entry = [NoResult EXCEPT !.kind = "error", !.error = "exception"]
    ELSE entry = [NoResult EXCEPT !.kind = "error",
                                  !.error = "Insufficient groups for comparison"]
C10_KruskalOverNonEmptyTiers ==
    statPc # "start" =>
        /\ statPc = "returned"
        /\ KruskalAsClaimed(statResult.bugfix.kruskal)
        /\ KruskalAsClaimed(statResult.improvingcode.kruskal)

\* C11: a tier with fewer than 2 values has no standard deviation and is
\* reported without one: a grouping function whose table is read to its end
\* with a tier of exactly one value returns, it does not raise.
C11_OneValueTierReturns ==
    [][(/\ grpPc = "reading"
        /\ grpPc' \notin {"reading", "row"}
        /\ \E tier \in {"lesser", "medium", "high"} : Len(grpAcc[tier]) = 1) =>
            grpPc' = "returned"]_vars

\* The lines of a text that hold a character other than whitespace: line n
\* is what lies between the (n-1)-th and the n-th line end.
LineNumber(text, p) == 1 + Cardinality({q \in 1..(p - 1) : text[q] = "\n"})
NonBlankLines(text) ==
    Cardinality({LineNumber(text, p) : p \in {q \in 1..Len(text) : text[q] \notin Whitespace}})
\* The name ends, in any case, with an extension of the set.
SuffixInExtensions(name) ==
    \E ext \in CodeExtensions : Len(name) > Len(ext) /\ EndsWith(StrLower(name), ext)
RECURSIVE SumSeq(_)
SumSeq(numbers) == IF numbers = <<>> THEN 0 ELSE Head(numbers) + SumSeq(Tail(numbers))
SumOver(files, Lines(_)) == SumSeq([i \in 1..Len(files) |-> Lines(files[i])])
LastRow == cntRows[Len(cntRows)]

\* C12: the code_lines written for a project is the total, over the files at
\* any depth under it whose suffix is in the extension set in any case, of
\* their lines with a character other than whitespace; blank lines, files
\* with another suffix and directories add nothing.
NonBlankLinesOfMatching(entry) ==
    IF /\ entry.kind = "file"
       /\ SuffixInExtensions(entry.path[Len(entry.path)])
       /\ entry.outcome.kind = "bytes"
    THEN NonBlankLines(DecodeIgnore(entry.outcome.bytes))
    ELSE 0
C12_TotalOfNonBlankLines ==
    cntPc = "written" => LastRow[2] = SumOver(cntFiles, NonBlankLinesOfMatching)
C12_Witness ==
    /\ cntPc = "written"
    /\ Len(cntFiles) = 2
    /\ cntFiles[1].path = NestedUpperFile /\ cntFiles[1].outcome.kind = "bytes"
    /\ InvalidByte \notin {cntFiles[1].outcome.bytes[i] : i \in 1..Len(cntFiles[1].outcome.bytes)}
    /\ cntFiles[2].path = TextFile
    /\ LastRow[2] = 2

\* C13: count_code_lines writes exactly one row, keyed "level1/level2", for
\* every level 2 directory of every level 1 directory of the root, a project
\* without matching files included, with code_lines 0; it writes no other row.
ProjectsOfTree ==
    UNION {{CombinedName(cntTree[k][1], cntTree[k][2][i].name) :
                i \in {j \in 1..Len(cntTree[k][2]) : cntTree[k][2][j].kind = "dir"}} :
           k \in 1..Len(cntTree)}
RowsKeyed(name) == {i \in 1..Len(cntRows) : cntRows[i][1] = name}
C13_OneRowPerProject ==
    /\ \A i \in 1..Len(cntRows) :
        /\ cntRows[i][1] \in ProjectsOfTree
        /\ Cardinality(RowsKeyed(cntRows[i][1])) = 1
    /\ cntPc = "written" /\ SumOver(cntFiles, NonBlankLinesOfMatching) = 0 =>
        cntRows # <<>> /\ LastRow[2] = 0
    /\ cntPc = "returned" =>
        /\ \A i \in 1..Len(cntRootListing) :
            cntRootListing[i].kind = "dir" =>
                \E k \in 1..Len(cntTree) : cntTree[k][1] = cntRootListing[i].name
        /\ \A name \in ProjectsOfTree : Cardinality(RowsKeyed(name)) = 1
C13_Witness ==
    /\ cntPc = "returned"
    /\ Len(cntRows) = 3
    /\ cntRows[1][2] > 0 /\ cntRows[2][2] = 0 /\ cntRows[3][2] > 0

\* C14: a matching file that cannot be opened or cannot be decoded is
\* skipped: the project's total is made of the other matching files only,
\* and the run goes on to write the project's row.
Decodable(bytes) == \A i \in 1..Len(bytes) : bytes[i] # InvalidByte
LinesUnlessUnreadable(entry) ==
    IF entry.outcome.kind = "bytes" /\ Decodable(entry.outcome.bytes)
    THEN NonBlankLinesOfMatching(entry)
    ELSE 0
C14_UnreadableFilesAreSkipped ==
    /\ cntPc \notin {"idle", "start"} /\ cntRootKind = "dir" => cntPc # "raised"
    /\ cntPc = "written" => LastRow[2] = SumOver(cntFiles, LinesUnlessUnreadable)

\* C15: with a root that does not exist or is not a directory the run raises
\* before any work: the output file is not created or truncated, nothing is
\* scanned, nothing is written.
C15_BadRootAbortsFirst ==
    cntRootKind \in {"missing", "file"} /\ cntPc # "start" =>
        /\ cntPc = "raised"
        /\ cntFile = "untouched"
        /\ cntScans = 0
        /\ cntRows = <<>>
C15_Witness == cntRootKind = "file" /\ cntPc = "raised" /\ cntFile = "untouched"

\* The code_lines values, in the order of the rows, of the projects rows
\* whose markers all are this digit: the value the counts table holds for
\* the row's name, 0 for a name it does not hold.
PipeValue(row) ==
    LET name == Strip(row[1])
    IN  IF DictHas(codelines_dict, name) THEN IntOf(DictGet(codelines_dict, name)).value
        ELSE 0
PipeTier(digit) ==
    LET rows == SelectSeq(joinInput, LAMBDA row : \A j \in 2..4 : row[j] = <<digit>>)
    IN  [i \in 1..Len(rows) |-> PipeValue(rows[i])]

\* C16: a projects row whose name is a directory_name of the counts table
\* with the integer code_lines v and whose three markers all are the value of
\* tier t has v placed, by the join and then the grouping of its output, in
\* the list of tier t and in no other: each list holds the values of its own
\* rows, in their order.
C16_PipelinePlacesCounts ==
    (/\ joinPc = "returned" /\ grpPc # "idle"
     /\ \E i \in 1..Len(joinInput) :
            /\ DictHas(codelines_dict, Strip(joinInput[i][1]))
            /\ \E digit \in {"1", "2", "3"} : \A j \in 2..4 : joinInput[i][j] = <<digit>>) =>
        /\ grpPc = "returned"
        /\ grpAcc.lesser = PipeTier("1")
        /\ grpAcc.medium = PipeTier("2")
        /\ grpAcc.high = PipeTier("3")

\* C17: levenshtein_distance(a, b) = levenshtein_distance(b, a) for all
\* strings a and b.
C17_Symmetric == levPc = "done" => levResult = levenshtein_distance(s2, s1)
C17_Witness == levPc = "done" /\ s1 = <<"a", "b">> /\ s2 = <<"b", "a", "a">> /\ levResult = 2

\* C18: the distance lies between the difference of the two lengths and the
\* greater length; from the empty string to s it is the length of s.
C18_Bounds ==
    levPc = "done" =>
        /\ Abs(Len(s1) - Len(s2)) <= levResult
        /\ levResult <= Max2(Len(s1), Len(s2))
        /\ s1 = <<>> => levResult = Len(s2)
C18_Witness == levPc = "done" /\ s1 = <<>> /\ s2 = <<"a", "b", "a">> /\ levResult = 3

\* C19: levenshtein_distance(a, a) = 0 for all strings a.
C19_Identity == levPc = "done" /\ s1 = s2 => levResult = 0
C19_Witness == levPc = "done" /\ s1 = <<"a", "b", "a">> /\ s2 = s1 /\ levResult = 0

\* C20: the list find_and_compute_distances builds is the records of the
\* pairs examined whose distance was computed, in the order the pairs were
\* examined: folder after folder as get_all_folders lists them, and in a
\* folder pair after pair as get_answer_version_pair returns them; a failed
\* pair leaves no record and does not disturb the order of the others.
FolderIndex(e) == CHOOSE k \in 1..Len(all_folders) : all_folders[k] = e.original[1]
C20_DiscoveryOrder ==
    /\ LET computed == SelectSeq(batchLog, LAMBDA e : e.distance >= 0)
       IN  all_distances =
                [i \in 1..Len(computed) |->
                    <<computed[i].original, computed[i].recent, computed[i].distance>>]
    /\ \A i, j \in 1..Len(batchLog) :
        i < j => FolderIndex(batchLog[i]) <= FolderIndex(batchLog[j])
    /\ batchPc = "pairs" =>
        \A k \in 1..(pairIdx - 1) :
            LET e == batchLog[Len(batchLog) - (pairIdx - 1) + k]
            IN  <<e.original, e.recent>> = file_pairs[k]
C20_Witness ==
    /\ batchPc = "returned"
    /\ Len(all_folders) = 2
    /\ Len(batchLog) = 4
    /\ batchLog[1].readable /\ ~batchLog[2].readable
    /\ batchLog[3].readable /\ batchLog[4].readable
    /\ batchLog[2].original[1] = all_folders[1]
    /\ batchLog[3].original[1] = all_folders[2]
    /\ Len(all_distances) = 3
    /\ all_distances[1][1] = batchLog[1].original
    /\ all_distances[2][1] = batchLog[3].original

\* C21: a record with the failure sentinel -1 stays out of the aggregation:
\* find_and_compute_distances returns no triple with a negative distance,
\* and the series analyze_levenshtein_distances summarises holds no negative
\* value read back from the distances table.
C21_SentinelStaysOut ==
    /\ \A i \in 1..Len(all_distances) : all_distances[i][3] >= 0
    /\ distPc = "analyzed" =>
        \A i \in 1..Len(distStats.raw_distances) : distStats.raw_distances[i] >= 0

\* C29: read_distances_from_csv never raises and returns a list: the empty
\* list for a file that is missing, cannot be opened or is empty, and
\* otherwise the integers of the third column of the rows after the first
\* that have at least 3 columns and an integer there, in order.
ThirdColumns(rows) ==
    LET kept == SelectSeq(SubSeq(rows, 2, Len(rows)),
                          LAMBDA row : Len(row) >= 3 /\ IntOf(Strip(row[3])).ok)
    IN  [i \in 1..Len(kept) |-> IntOf(Strip(kept[i][3])).value]
C29_ReadNeverRaises ==
    distPc \in {"read", "analyzed", "raised"} =>
        /\ distRead.raised = "none"
        /\ distFile.kind # "file" \/ distFile.text = <<>> => distRead.distances = <<>>
        /\ distFile.kind = "file" /\ distFile.text # <<>> =>
            distRead.distances = ThirdColumns(CsvRows(distFile.text))

\* C30: round trip. When save_distances_to_csv has written a list of
\* triples, read_distances_from_csv of the file returns the distances of
\* the triples, as many and in the same order.
C30_RoundTrip ==
    distPc \in {"read", "analyzed", "raised"} /\ distSaved = "True" =>
        /\ distRead.raised = "none"
        /\ distRead.distances = [i \in 1..Len(distTriples) |-> distTriples[i][3]]
C30_Witness ==
    /\ distPc = "read"
    /\ distSaved = "True"
    /\ distTriples = <<<< <<"a", ",", "b">>, <<"\r">>, -1 >>, << <<"\"", "a", "\n">>, <<"b">>, 12 >>>>
    /\ distRead.distances = <<-1, 12>>

\* C22: when map_lines_to_project has processed all rows, the matched count
\* and the unmatched count it reports add up to the number of input rows,
\* the matched count being the number of rows whose identifier was found.
RowsMatched ==
    {i \in 1..Len(joinInput) :
        LookUp(codelines_dict, ProjectName(RowDict(joinHeader, joinInput[i]))).matched}
C22_CountsAddUp ==
    joinPc = "returned" =>
        /\ joinAcc.matched_count + ReportedUnmatched(joinAcc) = Len(joinInput)
        /\ joinAcc.matched_count = Cardinality(RowsMatched)
        /\ ReportedUnmatched(joinAcc) = Len(joinInput) - Cardinality(RowsMatched)
C22_Witness ==
    /\ joinPc = "returned"
    /\ Len(joinInput) = 2
    /\ joinAcc.matched_count = 1
    /\ ReportedUnmatched(joinAcc) = 1
    /\ joinAcc.unmatched_projects = <<>>

\* C28: the list of unmatched identifiers map_lines_to_project reports has
\* one entry for every input row that was not matched, so its length is the
\* reported unmatched count, also for rows without any identifier.
C28_UnmatchedListIsComplete ==
    joinPc = "returned" =>
        Len(joinAcc.unmatched_projects) = ReportedUnmatched(joinAcc)

\* C23: in the grouping functions a target value that is not a valid
\* integer counts as 0 and the row is still put in the tier its markers
\* name: such a value never raises and never keeps the row out of its tier.
TierDigit(tier) == CASE tier = "lesser" -> "1" [] tier = "medium" -> "2" [] tier = "high" -> "3"
MarkersPresent(d) == \A c \in MarkerColumns : RowGet(d, c, <<>>).t = "str"
TargetNotInteger(d, target) ==
    LET value == RowGet(d, target, <<"0">>)
    IN  value.t # "str" \/ ~IntOf(Strip(value.v)).ok
C23_NonNumericTargetIsZero ==
    [][(grpPc = "row" /\ MarkersPresent(GrpRow) /\ TargetNotInteger(GrpRow, grpTarget)) =>
        /\ grpPc' = "counted"
        /\ \A tier \in {"lesser", "medium", "high"} :
            AllStrippedMarkersAre(GrpRow, TierDigit(tier)) =>
                grpAcc'[tier] = Append(grpAcc[tier], 0)]_vars

\* C24: after every row a grouping function has processed, the row has been
\* counted in exactly one of lesser, medium, high and other: one counter
\* went up by one and the others stayed, the four counters add up to
\* total_count, and each tier's list is as long as its counter says.
TierCounters == <<"lesser_count", "medium_count", "high_count", "other_count">>
CountersAddUp(acc) ==
    /\ acc.lesser_count + acc.medium_count + acc.high_count + acc.other_count
        = acc.total_count
    /\ Len(acc.lesser) = acc.lesser_count
    /\ Len(acc.medium) = acc.medium_count
    /\ Len(acc.high) = acc.high_count
C24_EachRowInOneTier ==
    [][(grpPc = "row" /\ grpPc' = "counted") =>
        /\ grpAcc'.total_count = grpAcc.total_count + 1
        /\ \E i \in 1..4 :
            /\ grpAcc'[TierCounters[i]] = grpAcc[TierCounters[i]] + 1
            /\ \A j \in (1..4) \ {i} : grpAcc'[TierCounters[j]] = grpAcc[TierCounters[j]]
        /\ CountersAddUp(grpAcc) /\ CountersAddUp(grpAcc')]_vars
C24_Witness ==
    /\ grpPc = "counted"
    /\ grpAcc.total_count = 2
    /\ grpAcc.lesser_count = 1 /\ grpAcc.other_count = 1
    /\ grpAcc.lesser = <<0>>

\* C27: on one and the same table the three grouping functions put every
\* row in the same tier or in none: the lesser, medium and high lists they
\* return are pairwise of equal length, row for row in the same order.
Returned(result) == result.acc.raised = "none"
SameTiers(a, b) ==
    \A tier \in {"lesser", "medium", "high"} : Len(a.acc[tier]) = Len(b.acc[tier])
C27_SameTiersInAllThree ==
    tierPc = "done" =>
        \A t1, t2 \in Targets :
            IF Returned(tierResults[t1]) /\ Returned(tierResults[t2])
            THEN SameTiers(tierResults[t1], tierResults[t2])
            ELSE ~Returned(tierResults[t1]) /\ ~Returned(tierResults[t2])

\* C25: at every point of a count_code_lines run the output file is the
\* header followed by exactly one row for each project completed so far,
\* the last one the project just counted; rows are only ever added at the
\* end, so the file of an interrupted run is a prefix of the complete one.
UnitsDoneIn(k) ==
    IF k < Len(cntTree) \/ cntPc \in {"level1", "returned"}
    THEN Cardinality({i \in 1..Len(cntTree[k][2]) : cntTree[k][2][i].kind = "dir"})
    ELSE IF cntPc = "written" THEN level2Idx ELSE level2Idx - 1
UnitsDone == SumSeq([k \in 1..Len(cntTree) |-> UnitsDoneIn(k)])
FileHoldsCompletedUnits ==
    /\ cntFile = "untouched" => cntRows = <<>>
    /\ cntFile = "created" => Len(cntRows) = UnitsDone
    /\ cntPc = "written" =>
        /\ cntRows # <<>>
        /\ LastRow[1] = CombinedName(subdirectories[level1Idx], level2_subdirs[level2Idx])
C25_FileIsPrefixOfCompleteRun ==
    [][/\ FileHoldsCompletedUnits'
       /\ Len(cntRows') >= Len(cntRows)
       /\ SubSeq(cntRows', 1, Len(cntRows)) = cntRows
       /\ cntFile = "created" => cntFile' = "created"]_vars
C25_Witness ==
    /\ cntPc = "written"
    /\ Len(cntTree) = 2
    /\ Len(cntRows) = 3
    /\ level2Idx = 1 /\ Len(level2_subdirs) = 2

\* C26: count_code_lines writes the project units in lexicographic order of
\* the level 1 name and, within one level 1 directory, of the level 2 name,
\* whatever the order in which the file system lists the directories.
SlashAt(key) == CHOOSE i \in 1..Len(key) : key[i] = "/"
Level1Of(key) == SubSeq(key, 1, SlashAt(key) - 1)
Level2Of(key) == SubSeq(key, SlashAt(key) + 1, Len(key))
KeyLess(a, b) ==
    \/ NameLess(Level1Of(a), Level1Of(b))
    \/ Level1Of(a) = Level1Of(b) /\ NameLess(Level2Of(a), Level2Of(b))
C26_RowsInNameOrder ==
    \A i, j \in 1..Len(cntRows) : i < j => KeyLess(cntRows[i][1], cntRows[j][1])
C26_Witness ==
    /\ cntPc = "returned"
    /\ Len(cntRootListing) = 2
    /\ cntRootListing[1].name = <<"q">> /\ cntRootListing[2].name = <<"p">>
    /\ Len(cntRows) = 4
    /\ cntTree[1][2][1].name = <<"y">> /\ cntTree[1][2][2].name = <<"x">>
    /\ [i \in 1..4 |-> cntRows[i][1]]
        = <<<<"p", "/", "x">>, <<"p", "/", "y">>, <<"q", "/", "x">>, <<"q", "/", "y">>>>

====
